---- MODULE Spec2Model ----
(***************************************************************************)
(* Queue-backed crawl engine of sharepoint-5s: the crawl-sharepoint edge   *)
(* function (initializeCrawl + its seed-time processBatch) and the         *)
(* continue-crawl edge function (one processBatch per poll), running as    *)
(* concurrent invocations against the tables scans, crawl_queue and        *)
(* crawled_files.  Every await of the source (a store round trip or a      *)
(* remote call) is one atomic step of the invocation that makes it.        *)
(***************************************************************************)
EXTENDS Integers, Sequences, FiniteSets, Bags, TLC

\* ------------------------------------------------------------------ bounds
\* Folders taken per batch; the source value is 50, scaled to the model trees.
BATCH_SIZE == 2
\* Number of times the wall clock advances in one behaviour.
MaxTicks == 1
\* Invocations that may die mid-batch in one behaviour.
MaxCrashes == 1
\* crawl_queue rows per scan in the two-scan store.
MaxStoreRows == 2
\* Path segments of a request URL.
MaxSegments == 3
\* 429 responses before the final response of a remote request.
MaxThrottled == 2
\* Rows of the inventory of an analysis.
MaxFiles == 3
\* Items of a classifier chunk (BATCH_SIZE of analyze, 500 there); the chunk
\* loop only compares lengths with it.
AnalyzeBatchSize == 2

\* ------------------------------------------------------- program constants
\* Age in minutes after which a `processing` row counts as stuck.
StaleWindow == 2
\* Minutes per clock advance: just past the staleness window, so that a row is
\* either fresh or stale at a stale pass.
TickMinutes == StaleWindow + 1
\* Upper clamp of crawl_progress while the crawl is running.
ProgressCap == 99
\* crawl_progress written by finalizeCrawl.
ProgressFinal == 100
\* bufferMs of getGraphToken, in seconds.
BufferSeconds == 300
\* Pause in seconds after a 429 without a Retry-After header.
DefaultRetryAfter == 5
\* expires_in of a refreshed token, in seconds.
ExpiresIn == 3600
\* HTTP status of a throttled request.
TooManyRequests == 429

\* ------------------------------------------------------------ remote trees
FolderIds == {"r", "s", "a", "b", "c", "d", "e"}
FileIds == {"f", "g"}
ItemIds == FolderIds \cup FileIds

\* item.folder of the remote item
IsFolder(i) == i \in FolderIds

\* item.size of the remote item (a folder reports a size too)
SizeOf(i) == CASE i = "f" -> 1
               [] i = "g" -> 2
               [] OTHER -> 3

NoKids == [x \in FolderIds |-> <<>>]

\* drive.name of a document library, item.name of any other item
NameOf(i) == CASE i = "r" -> "Docs"
               [] i = "s" -> "Lib"
               [] OTHER -> i

\* String.prototype.toLowerCase on the names in use
ToLowerCase(n) == CASE n = "Docs" -> "docs"
                    [] n = "Lib" -> "lib"
                    [] n = "LIB" -> "lib"
                    [] OTHER -> n

\* one drive, one folder level below the root
TreeChain == [drives |-> <<"r">>, libraryPath |-> <<>>,
              kids |-> [NoKids EXCEPT !["r"] = <<"a", "f">>, !["a"] = <<"g">>]]
\* two drives
TreeTwoDrives == [drives |-> <<"r", "s">>, libraryPath |-> <<>>,
                  kids |-> [NoKids EXCEPT !["r"] = <<"f">>, !["s"] = <<"g">>]]
\* a folder whose expansion discovers three subfolders
TreeFan == [drives |-> <<"r">>, libraryPath |-> <<>>,
            kids |-> [NoKids EXCEPT !["r"] = <<"a", "f">>,
                                    !["a"] = <<"b", "c", "d">>,
                                    !["b"] = <<"g">>]]
\* three folders under the root, the first of them with two subfolders: a
\* batch leaves rows of two depths pending
TreeWide == [drives |-> <<"r">>, libraryPath |-> <<>>,
             kids |-> [NoKids EXCEPT !["r"] = <<"a", "b", "c">>,
                                     !["a"] = <<"d", "e">>]]
\* a site without document libraries
TreeNoDrives == [drives |-> <<>>, libraryPath |-> <<>>, kids |-> NoKids]
\* two drives and a request that names the second one, in another case
TreeLibrary == [drives |-> <<"r", "s">>, libraryPath |-> <<"LIB">>,
                kids |-> [NoKids EXCEPT !["r"] = <<"f">>, !["s"] = <<"a", "g">>]]
\* two drives and a request whose first path segment names neither
TreeLibraryUnmatched == [drives |-> <<"r", "s">>, libraryPath |-> <<"Archive">>,
                         kids |-> [NoKids EXCEPT !["r"] = <<"a", "f">>, !["s"] = <<"g">>]]

\* sites explored with overlapping invocations
Trees == {TreeChain, TreeTwoDrives, TreeNoDrives}
\* sites explored with one batch at a time
SeqTrees == {TreeChain, TreeTwoDrives, TreeFan, TreeWide, TreeNoDrives,
             TreeLibrary, TreeLibraryUnmatched}

\* ---------------------------------------------------------------- processes
Seed == "seed"
Polls == {"p1"}
Procs == {Seed} \cup Polls

VARIABLES
  scan,     \* the scans row
  queue,    \* crawl_queue rows of the scan, in insertion order
  files,    \* crawled_files rows of the scan, a bag of rows
  proc,     \* per invocation: position and local variables
  clock,    \* wall clock, minutes
  tree,     \* the remote site and the library path of the request
  crashes,  \* invocations that died so far
  scans,          \* two-scan store: the scans table, by scan id
  crawl_queue,    \* two-scan store: the crawl_queue table, rows carry scan_id
  crawled_files,  \* two-scan store: the crawled_files table, rows carry scan_id
  worker,         \* two-scan store: per scan, the locals of its processBatch
  op,             \* two-scan store: the scan the last statement ran for
  handler,        \* crawl-sharepoint handler: request, position, response
  provider_tokens,  \* graph client: the user's provider_tokens row
  gf,               \* graph client: the graphFetch call and its locals
  time,             \* graph client: wall clock, seconds
  analysis          \* analyze handler: request, inventory, drafts, stored rows

crawlVars == <<scan, queue, files, proc, clock, tree, crashes>>
storeVars == <<scans, crawl_queue, crawled_files, worker, op>>
\* everything but the variables of the crawl of one scan
graphVars == <<provider_tokens, gf, time>>
auxVars == <<storeVars, handler, graphVars, analysis>>
vars == <<crawlVars, auxVars>>

\* the two-scan store is not in use
StoreIdle ==
  /\ scans = <<>> /\ crawl_queue = <<>> /\ crawled_files = {}
  /\ worker = <<>> /\ op = "none"

\* no graphFetch call is in the model
GraphIdle == provider_tokens = "none" /\ gf = "idle" /\ time = 0

\* no analyze request is in the model
AnalysisIdle == analysis = "idle"

AuxIdle == StoreIdle /\ handler = "idle" /\ GraphIdle /\ AnalysisIdle

\* ------------------------------------------------------------------ helpers
Min(a, b) == IF a < b THEN a ELSE b

RECURSIVE SumSeq(_)
SumSeq(s) == IF s = <<>> THEN 0 ELSE Head(s) + SumSeq(Tail(s))

Idx(s) == 1..Len(s)

\* count: 'exact' of crawl_queue rows with the given status
CountStatus(q, st) == Cardinality({i \in Idx(q) : q[i].status = st})

\* the ordering with the deepest rows first
BeforeDeepestFirst(q, i, j) ==
  \/ q[i].depth > q[j].depth
  \/ q[i].depth = q[j].depth /\ i < j

\* .order('depth').order('created_at'); ties fall back to insertion order
Before(q, i, j) ==
  \/ q[i].depth < q[j].depth
  \/ q[i].depth = q[j].depth /\ q[i].created < q[j].created
  \/ q[i].depth = q[j].depth /\ q[i].created = q[j].created /\ i < j

RECURSIVE TakeOrdered(_, _, _)
TakeOrdered(q, S, n) ==
  IF n = 0 \/ S = {} THEN <<>>
  ELSE LET m == CHOOSE i \in S : \A j \in S \ {i} : Before(q, i, j)
       IN <<m>> \o TakeOrdered(q, S \ {m}, n - 1)

\* the select without its limit
SelectPendingNoLimit(q, n) ==
  TakeOrdered(q, {i \in Idx(q) : q[i].status = "pending"}, Len(q))

\* select ... eq(status, pending) order(depth) order(created_at) limit(batchSize)
SelectPending(q, n) ==
  TakeOrdered(q, {i \in Idx(q) : q[i].status = "pending"}, n)

\* the percentage without its clamp
ProgressNoClamp(doneCount, totalCount) ==
  IF totalCount = 0 THEN 0
  ELSE (200 * doneCount + totalCount) \div (2 * totalCount)

\* Math.min(Math.round(doneCount / totalCount * 100), 99), 0 for an empty queue
Progress(doneCount, totalCount) ==
  IF totalCount = 0 THEN 0
  ELSE Min((200 * doneCount + totalCount) \div (2 * totalCount), ProgressCap)

\* a crawl_queue row; exp, rec and claimed are history of the model:
\* processFolder calls made for the row, stale reclaims applied to it, and the
\* time it was last marked `processing` (-1 before the first time)
QueueRow(folder, parent, depth, path, now) ==
  [folder |-> folder, parent_item_id |-> parent, depth |-> depth,
   folder_path |-> path, status |-> "pending",
   created |-> now, err |-> "none", exp |-> 0, rec |-> 0, claimed |-> -1]

\* `${folder_path}${item.name}${isFolder ? '/' : ''}`, a string as the
\* sequence of its separators and names
ItemPath(folderPath, item) ==
  folderPath \o <<NameOf(item)>> \o (IF IsFolder(item) THEN <<"/">> ELSE <<>>)

\* the crawled_files row built for a child of the folder at depth qdepth
FileRow(item, parent, qdepth, folderPath) ==
  [item |-> item, is_folder |-> IsFolder(item), size_bytes |-> SizeOf(item),
   path |-> ItemPath(folderPath, item),
   depth |-> qdepth + (IF IsFolder(item) THEN 1 ELSE 0),
   parent_item_id |-> parent]

RECURSIVE SumOver(_, _)
SumOver(S, f) ==
  IF S = {} THEN 0
  ELSE LET x == CHOOSE y \in S : TRUE IN f[x] + SumOver(S \ {x}, f)

\* totals finalizeCrawl recomputes from crawled_files: <<files, folders, bytes>>
InventoryTotals(fs) ==
  LET rows == BagToSet(fs)
  IN <<SumOver(rows, [r \in rows |-> IF r.is_folder THEN 0 ELSE fs[r]]),
       SumOver(rows, [r \in rows |-> IF r.is_folder THEN fs[r] ELSE 0]),
       SumOver(rows, [r \in rows |-> IF r.is_folder THEN 0 ELSE fs[r] * r.size_bytes])>>

\* filesAdded, foldersAdded, sizeAdded of one processFolder call
FolderAdded(kids) ==
  <<Cardinality({i \in Idx(kids) : ~IsFolder(kids[i])}),
    Cardinality({i \in Idx(kids) : IsFolder(kids[i])}),
    SumSeq([i \in Idx(kids) |-> IF IsFolder(kids[i]) THEN 0 ELSE SizeOf(kids[i])])>>

\* local variables of an invocation; rerun is a history flag of the model: the
\* invocation entered processBatch when every queue row was already `done`
Locals(pc) ==
  [pc |-> pc, items |-> <<>>, k |-> 0, kids |-> <<>>,
   add |-> <<0, 0, 0>>, cur |-> <<0, 0, 0>>, dc |-> 0, n |-> 0, msg |-> "none",
   rerun |-> FALSE]

NewScan ==
  [status |-> "crawling", crawl_progress |-> 0, total_files |-> 0,
   total_folders |-> 0, total_size_bytes |-> 0, error_message |-> "none"]

InitWith(T) ==
  /\ tree \in T
  /\ scan = NewScan
  /\ queue = <<>>
  /\ files = EmptyBag
  /\ proc = [p \in Procs |-> IF p = Seed THEN Locals("resolve") ELSE Locals("idle")]
  /\ clock = 0
  /\ crashes = 0
  /\ AuxIdle

Init == InitWith(Trees)

\* --------------------------------------------------------------- positions
\* every crawl_queue row is `done`
AllDone == queue # <<>> /\ \A i \in Idx(queue) : queue[i].status = "done"

\* positions inside the for-loop of processBatch
LoopPcs == {"expand", "ins_files", "ins_queue", "mark_done", "mark_error"}
\* positions inside processBatch after the batch has been marked `processing`
BatchPcs == {"expand", "ins_files", "ins_queue", "mark_done", "mark_error",
             "prog_read", "prog_done", "prog_total", "prog_write", "remaining",
             "fin_done", "fin_err", "fin_errmsg", "fin_write_err",
             "fin_files", "fin_write"}
\* positions inside processBatch (finalizeCrawl and updateScanProgress included)
InBatchPcs == BatchPcs \cup {"fetch", "count_total", "mark"}

At(p, pc) == proc[p].pc = pc
Goto(p, pc) == proc' = [proc EXCEPT ![p].pc = pc]

\* position after processBatch returns: initializeCrawl ends; continue-crawl
\* reads the updated scan, responds and is ready for the next poll
AfterBatch(p) == IF p = Seed THEN Locals("finished") ELSE Locals("idle")

\* the queue row the for-loop of processBatch is at
Current(p) == proc[p].items[proc[p].k]

\* --------------------------------------------- crawl-sharepoint: initializeCrawl
\* resolve the site and list its drives; a remote error or an empty drive list
\* throws into the catch block
ResolveSite(p) ==
  /\ p = Seed /\ At(p, "resolve")
  /\ \E ok \in BOOLEAN :
       IF ok /\ tree.drives # <<>>
       THEN Goto(p, "seed")
       ELSE proc' = [proc EXCEPT ![p].pc = "init_catch",
                                 ![p].msg = IF ok THEN "no_drives" ELSE "graph_error"]
  /\ UNCHANGED <<scan, queue, files, clock, tree, crashes>>

\* every drive of the site, whatever the request names
TargetDrivesAll(drives, libraryPath) == drives

\* the drives to crawl: with a library path the first drive named like its
\* first segment, ignoring case, or else the first drive; without, all drives
TargetDrives(drives, libraryPath) ==
  IF libraryPath # <<>>
  THEN LET m == {i \in Idx(drives) :
                   ToLowerCase(NameOf(drives[i])) = ToLowerCase(libraryPath[1])}
       IN IF m # {}
          THEN <<drives[CHOOSE i \in m : \A j \in m : i <= j]>>
          ELSE <<drives[1]>>
  ELSE drives

\* the root crawl_queue row of a drive
RootRow(drive, now) == QueueRow(drive, "null", 0, <<"/", NameOf(drive), "/">>, now)

\* insert one root queue row per target drive, then call processBatch
SeedQueue(p) ==
  /\ p = Seed /\ At(p, "seed")
  /\ LET targetDrives == TargetDrives(tree.drives, tree.libraryPath)
     IN queue' = queue \o [i \in Idx(targetDrives) |-> RootRow(targetDrives[i], clock)]
  /\ Goto(p, "reclaim")
  /\ UNCHANGED <<scan, files, clock, tree, crashes>>

\* catch block of initializeCrawl
InitCatch(p) ==
  /\ p = Seed /\ At(p, "init_catch")
  /\ scan' = [scan EXCEPT !.status = "error", !.error_message = proc[p].msg]
  /\ proc' = [proc EXCEPT ![p] = Locals("finished")]
  /\ UNCHANGED <<queue, files, clock, tree, crashes>>

\* ------------------------------------------------- continue-crawl: the handler
\* a poll arrives and reads the scan; anything but `crawling` is answered at
\* once, otherwise the handler calls processBatch
ContinueCrawl(p) ==
  /\ p \in Polls /\ At(p, "idle")
  /\ IF scan.status # "crawling"
     THEN proc' = [proc EXCEPT ![p] = Locals("idle")]
     ELSE proc' = [proc EXCEPT ![p] = [Locals("fetch") EXCEPT !.rerun = AllDone]]
  /\ UNCHANGED <<scan, queue, files, clock, tree, crashes>>

\* ---------------------------------------------------------------- processBatch
\* rows the stale pass of crawl-sharepoint's processBatch resets
IsStale(row, now) == row.status = "processing" /\ row.created < now - StaleWindow

ReclaimStale(p) ==
  /\ p = Seed /\ At(p, "reclaim")
  /\ queue' = [i \in Idx(queue) |->
                 IF IsStale(queue[i], clock)
                 THEN [queue[i] EXCEPT !.status = "pending", !.rec = @ + 1]
                 ELSE queue[i]]
  /\ proc' = [proc EXCEPT ![p].pc = "fetch", ![p].rerun = AllDone]
  /\ UNCHANGED <<scan, files, clock, tree, crashes>>

\* position after an empty select: crawl-sharepoint finalizes, continue-crawl
\* first counts the rows of the scan
AfterEmptyFetch(p) == IF p = Seed THEN "fin_done" ELSE "count_total"

FetchPending(p) ==
  /\ At(p, "fetch")
  /\ LET sel == SelectPending(queue, BATCH_SIZE)
     IN IF sel = <<>>
        THEN Goto(p, AfterEmptyFetch(p))
        ELSE proc' = [proc EXCEPT ![p].pc = "mark", ![p].items = sel]
  /\ UNCHANGED <<scan, queue, files, clock, tree, crashes>>

\* continue-crawl finalizing after every empty select, seeded queue or not
CountQueueNoSeedCheck(p) ==
  /\ p \in Polls /\ At(p, "count_total")
  /\ Goto(p, "fin_done")
  /\ UNCHANGED <<scan, queue, files, clock, tree, crashes>>

\* continue-crawl only: an unseeded queue returns done=false without finalizing
CountQueue(p) ==
  /\ p \in Polls /\ At(p, "count_total")
  /\ IF Len(queue) = 0
     THEN proc' = [proc EXCEPT ![p] = AfterBatch(p)]
     ELSE Goto(p, "fin_done")
  /\ UNCHANGED <<scan, queue, files, clock, tree, crashes>>

\* update({status: 'processing'}).in('id', itemIds)
MarkedProcessing(q, ids) ==
  [i \in Idx(q) |->
     IF \E j \in Idx(ids) : ids[j] = i
     THEN [q[i] EXCEPT !.status = "processing"] ELSE q[i]]

MarkProcessing(p) ==
  /\ At(p, "mark")
  /\ queue' = [i \in Idx(queue) |->
                 IF \E j \in Idx(proc[p].items) : proc[p].items[j] = i
                 THEN [MarkedProcessing(queue, proc[p].items)[i]
                         EXCEPT !.claimed = clock]
                 ELSE queue[i]]
  /\ proc' = [proc EXCEPT ![p].pc = "expand", ![p].k = 1]
  /\ UNCHANGED <<scan, files, clock, tree, crashes>>

\* three-component sum of the running counters
Add3(x, y) == <<x[1] + y[1], x[2] + y[2], x[3] + y[3]>>

\* processFolder, the paginated remote read: all children, or a throw
FetchChildren(p) ==
  /\ At(p, "expand")
  /\ LET i == Current(p)
         kids == tree.kids[queue[i].folder]
     IN /\ queue' = [queue EXCEPT ![i].exp = @ + 1]
        /\ \E ok \in BOOLEAN :
             IF ok
             THEN proc' = [proc EXCEPT
                    ![p].kids = kids,
                    ![p].add = Add3(@, FolderAdded(kids)),
                    ![p].pc = IF kids = <<>> THEN "mark_done" ELSE "ins_files"]
             ELSE proc' = [proc EXCEPT ![p].pc = "mark_error",
                                       ![p].msg = queue[i].folder]
  /\ UNCHANGED <<scan, files, clock, tree, crashes>>

\* processFolder, batch insert of the crawled_files rows
InsertFiles(p) ==
  /\ At(p, "ins_files")
  /\ LET i == Current(p)
         kids == proc[p].kids
     IN /\ files' = files (+) SetToBag({FileRow(kids[j], queue[i].parent_item_id,
                                                queue[i].depth, queue[i].folder_path) :
                                          j \in Idx(kids)})
        /\ Goto(p, IF \E j \in Idx(kids) : IsFolder(kids[j])
                   THEN "ins_queue" ELSE "mark_done")
  /\ UNCHANGED <<scan, queue, clock, tree, crashes>>

\* the crawl_queue row processFolder builds for a subfolder
ChildRowSameDepth(item, qrow, now) ==
  QueueRow(item, item, qrow.depth, ItemPath(qrow.folder_path, item), now)

ChildRow(item, qrow, now) ==
  QueueRow(item, item, qrow.depth + 1, ItemPath(qrow.folder_path, item), now)

\* processFolder, batch insert of the discovered subfolders
InsertQueue(p) ==
  /\ At(p, "ins_queue")
  /\ LET i == Current(p)
         sub == SelectSeq(proc[p].kids, IsFolder)
     IN queue' = queue \o [j \in Idx(sub) |-> ChildRow(sub[j], queue[i], clock)]
  /\ Goto(p, "mark_done")
  /\ UNCHANGED <<scan, files, clock, tree, crashes>>

\* next position of the for-loop
LoopNext(p) == IF proc[p].k < Len(proc[p].items) THEN "expand" ELSE "prog_read"

MarkDone(p) ==
  /\ At(p, "mark_done")
  /\ queue' = [queue EXCEPT ![Current(p)].status = "done"]
  /\ proc' = [proc EXCEPT ![p].pc = LoopNext(p), ![p].k = @ + 1, ![p].kids = <<>>]
  /\ UNCHANGED <<scan, files, clock, tree, crashes>>

MarkError(p) ==
  /\ At(p, "mark_error")
  /\ queue' = [queue EXCEPT ![Current(p)].status = "error",
                            ![Current(p)].err = proc[p].msg]
  /\ proc' = [proc EXCEPT ![p].pc = LoopNext(p), ![p].k = @ + 1,
                          ![p].kids = <<>>, ![p].msg = "none"]
  /\ UNCHANGED <<scan, files, clock, tree, crashes>>

\* ----------------------------------------------------------- updateScanProgress
ProgressReadTotals(p) ==
  /\ At(p, "prog_read")
  /\ proc' = [proc EXCEPT ![p].pc = "prog_done",
                ![p].cur = <<scan.total_files, scan.total_folders, scan.total_size_bytes>>]
  /\ UNCHANGED <<scan, queue, files, clock, tree, crashes>>

ProgressCountDone(p) ==
  /\ At(p, "prog_done")
  /\ proc' = [proc EXCEPT ![p].pc = "prog_total", ![p].dc = CountStatus(queue, "done")]
  /\ UNCHANGED <<scan, queue, files, clock, tree, crashes>>

ProgressCountTotal(p) ==
  /\ At(p, "prog_total")
  /\ proc' = [proc EXCEPT ![p].pc = "prog_write", ![p].n = Len(queue)]
  /\ UNCHANGED <<scan, queue, files, clock, tree, crashes>>

ProgressWrite(p) ==
  /\ At(p, "prog_write")
  /\ LET t == Add3(proc[p].cur, proc[p].add)
     IN scan' = [scan EXCEPT !.crawl_progress = Progress(proc[p].dc, proc[p].n),
                             !.total_files = t[1],
                             !.total_folders = t[2],
                             !.total_size_bytes = t[3]]
  /\ Goto(p, "remaining")
  /\ UNCHANGED <<queue, files, clock, tree, crashes>>

\* count of pending rows after the batch; zero means finalize
CountRemaining(p) ==
  /\ At(p, "remaining")
  /\ IF CountStatus(queue, "pending") = 0
     THEN Goto(p, "fin_done")
     ELSE proc' = [proc EXCEPT ![p] = AfterBatch(p)]
  /\ UNCHANGED <<scan, queue, files, clock, tree, crashes>>

\* ---------------------------------------------------------------- finalizeCrawl
FinalizeCountDone(p) ==
  /\ At(p, "fin_done")
  /\ proc' = [proc EXCEPT ![p].pc = "fin_err", ![p].dc = CountStatus(queue, "done")]
  /\ UNCHANGED <<scan, queue, files, clock, tree, crashes>>

\* the all-folders-failed test
AllFailed(doneCount, errorCount) == doneCount = 0 /\ errorCount > 0

FinalizeCountError(p) ==
  /\ At(p, "fin_err")
  /\ LET errorCount == CountStatus(queue, "error")
     IN proc' = [proc EXCEPT ![p].n = errorCount,
                   ![p].pc = IF AllFailed(proc[p].dc, errorCount)
                             THEN "fin_errmsg" ELSE "fin_files"]
  /\ UNCHANGED <<scan, queue, files, clock, tree, crashes>>

\* select error_message ... eq(status, error).limit(1).single(): some errored
\* row, or the fallback text when there is none any more
FinalizeReadError(p) ==
  /\ At(p, "fin_errmsg")
  /\ LET errs == {i \in Idx(queue) : queue[i].status = "error"}
     IN IF errs = {}
        THEN proc' = [proc EXCEPT ![p].pc = "fin_write_err", ![p].msg = "all_failed"]
        ELSE \E i \in errs :
               proc' = [proc EXCEPT ![p].pc = "fin_write_err", ![p].msg = queue[i].err]
  /\ UNCHANGED <<scan, queue, files, clock, tree, crashes>>

FinalizeWriteError(p) ==
  /\ At(p, "fin_write_err")
  /\ scan' = [scan EXCEPT !.status = "error", !.error_message = proc[p].msg]
  /\ proc' = [proc EXCEPT ![p] = AfterBatch(p)]
  /\ UNCHANGED <<queue, files, clock, tree, crashes>>

FinalizeReadFiles(p) ==
  /\ At(p, "fin_files")
  /\ proc' = [proc EXCEPT ![p].pc = "fin_write", ![p].cur = InventoryTotals(files)]
  /\ UNCHANGED <<scan, queue, files, clock, tree, crashes>>

\* finalizeCrawl writing progress and totals but not the status
FinalizeWriteTotalsOnly(p) ==
  /\ At(p, "fin_write")
  /\ scan' = [scan EXCEPT !.crawl_progress = ProgressCap,
                          !.total_files = proc[p].cur[1],
                          !.total_folders = proc[p].cur[2],
                          !.total_size_bytes = proc[p].cur[3]]
  /\ proc' = [proc EXCEPT ![p] = AfterBatch(p)]
  /\ UNCHANGED <<queue, files, clock, tree, crashes>>

\* finalizeCrawl adding the inventory totals to the running counters
FinalizeWriteAdditive(p) ==
  /\ At(p, "fin_write")
  /\ scan' = [scan EXCEPT !.status = "crawled",
                          !.crawl_progress = ProgressFinal,
                          !.total_files = @ + proc[p].cur[1],
                          !.total_folders = @ + proc[p].cur[2],
                          !.total_size_bytes = @ + proc[p].cur[3]]
  /\ proc' = [proc EXCEPT ![p] = AfterBatch(p)]
  /\ UNCHANGED <<queue, files, clock, tree, crashes>>

FinalizeWrite(p) ==
  /\ At(p, "fin_write")
  /\ scan' = [scan EXCEPT !.status = "crawled",
                          !.crawl_progress = ProgressFinal,
                          !.total_files = proc[p].cur[1],
                          !.total_folders = proc[p].cur[2],
                          !.total_size_bytes = proc[p].cur[3]]
  /\ proc' = [proc EXCEPT ![p] = AfterBatch(p)]
  /\ UNCHANGED <<queue, files, clock, tree, crashes>>

\* ------------------------------------------------------------------ environment
\* the runtime kills an invocation that is inside the for-loop of its batch:
\* its rows stay `processing`, its local counters are lost
Crash(p) ==
  /\ proc[p].pc \in LoopPcs
  /\ crashes < MaxCrashes
  /\ crashes' = crashes + 1
  /\ proc' = [proc EXCEPT ![p] = IF p = Seed THEN Locals("finished") ELSE Locals("idle")]
  /\ UNCHANGED <<scan, queue, files, clock, tree, auxVars>>

\* time passes; the clock is read by the stale pass only, so it advances only
\* while the seed-time processBatch is about to run that pass
Tick ==
  /\ clock < MaxTicks * TickMinutes
  /\ proc[Seed].pc = "reclaim"
  /\ clock' = clock + TickMinutes
  /\ UNCHANGED <<scan, queue, files, proc, tree, crashes, auxVars>>

\* one step of invocation p
Step(p) ==
  /\ UNCHANGED auxVars
  /\ \/ ResolveSite(p) \/ SeedQueue(p) \/ InitCatch(p)
     \/ ContinueCrawl(p)
     \/ ReclaimStale(p) \/ FetchPending(p) \/ CountQueue(p) \/ MarkProcessing(p)
     \/ FetchChildren(p) \/ InsertFiles(p) \/ InsertQueue(p)
     \/ MarkDone(p) \/ MarkError(p)
     \/ ProgressReadTotals(p) \/ ProgressCountDone(p) \/ ProgressCountTotal(p)
     \/ ProgressWrite(p) \/ CountRemaining(p)
     \/ FinalizeCountDone(p) \/ FinalizeCountError(p) \/ FinalizeReadError(p)
     \/ FinalizeWriteError(p) \/ FinalizeReadFiles(p) \/ FinalizeWrite(p)

Next ==
  \/ \E p \in Procs : Step(p)
  \/ \E p \in Procs : Crash(p)
  \/ Tick

Spec == Init /\ [][Next]_vars

\* ------------------------------------------------- one batch at a time
\* no other invocation is inside processBatch
BatchExclusive(p) == \A q \in Procs \ {p} : proc[q].pc \notin InBatchPcs

\* a step of p that does not enter processBatch while another batch is running
SeqStep(p) ==
  /\ proc[p].pc \in {"reclaim", "idle"} => BatchExclusive(p)
  /\ Step(p)

SeqInit == InitWith(SeqTrees)

SeqNext ==
  \/ \E p \in Procs : SeqStep(p)
  \/ \E p \in Procs : Crash(p)
  \/ Tick

\* processBatch calls that do not overlap one another (a poll may still arrive
\* while initializeCrawl is resolving the site)
SeqSpec == SeqInit /\ [][SeqNext]_vars

\* --------------------------------------------- one invocation at a time
\* no other invocation is running
InvocationExclusive(p) == \A q \in Procs \ {p} : proc[q].pc \in {"idle", "finished"}

\* a step of p that does not start a poll while another invocation is running
DriverStep(p) ==
  /\ proc[p].pc = "idle" => InvocationExclusive(p)
  /\ Step(p)

DriverNext ==
  \/ \E p \in Procs : DriverStep(p)
  \/ \E p \in Procs : Crash(p)
  \/ Tick

\* a single sequential driver: the polls follow crawl-sharepoint one by one
DriverSpec == SeqInit /\ [][DriverNext]_vars

\* --------------------------------------------------------- scheduling
\* every invocation keeps running and the scan keeps being polled
LiveSpec == Spec /\ \A p \in Procs : WF_vars(Step(p))

\* ------------------------------------------------- the store with two scans
\* The same store statements on tables that hold the rows of two scans, each
\* statement with the filters the source gives it.  One processBatch at a time
\* per scan; a folder has one file and, while the table has room, one subfolder.
ScanIds == {"A", "B"}

\* a crawl_queue row of the shared table
StoreRow(s, depth) ==
  [scan_id |-> s, depth |-> depth, status |-> "pending", created |-> 0,
   err |-> "none"]

\* positions of the rows of scan s in the table q
RowsOf(q, s) == {i \in Idx(q) : q[i].scan_id = s}

\* count: 'exact' with .eq('scan_id', s).eq('status', st)
StoreCount(q, s, st) == Cardinality({i \in RowsOf(q, s) : q[i].status = st})

\* crawled_files rows with .eq('scan_id', s)
FilesOf(fs, s) == {r \in fs : r.scan_id = s}

\* no crawl of the single-scan model is running
CrawlIdle ==
  /\ scan = NewScan /\ queue = <<>> /\ files = EmptyBag
  /\ proc = [p \in Procs |-> Locals("finished")]
  /\ clock = 0 /\ crashes = 0 /\ tree = TreeNoDrives

StoreInit ==
  /\ scans = [s \in ScanIds |-> NewScan]
  /\ crawl_queue = <<>>
  /\ crawled_files = {}
  /\ worker = [s \in ScanIds |-> [items |-> <<>>, add |-> <<0, 0, 0>>]]
  /\ op = "none"
  /\ CrawlIdle
  /\ handler = "idle" /\ GraphIdle /\ AnalysisIdle

\* initializeCrawl: insert the root row of the scan
StoreSeed(s) ==
  /\ RowsOf(crawl_queue, s) = {} /\ scans[s].status = "crawling"
  /\ crawl_queue' = Append(crawl_queue, StoreRow(s, 0))
  /\ op' = s
  /\ UNCHANGED <<scans, crawled_files, worker>>

\* the stale pass without its scan filter
StoreReclaimAllScans(s, now) ==
  /\ worker[s].items = <<>>
  /\ crawl_queue' = [i \in Idx(crawl_queue) |->
                       IF IsStale(crawl_queue[i], now)
                       THEN [crawl_queue[i] EXCEPT !.status = "pending"]
                       ELSE crawl_queue[i]]
  /\ op' = s
  /\ UNCHANGED <<scans, crawled_files, worker>>

\* update({status: 'pending'}).eq('scan_id', s).eq('status', 'processing')
\*   .lt('created_at', twoMinutesAgo)
StoreReclaim(s, now) ==
  /\ worker[s].items = <<>>
  /\ crawl_queue' = [i \in Idx(crawl_queue) |->
                       IF crawl_queue[i].scan_id = s /\ IsStale(crawl_queue[i], now)
                       THEN [crawl_queue[i] EXCEPT !.status = "pending"]
                       ELSE crawl_queue[i]]
  /\ op' = s
  /\ UNCHANGED <<scans, crawled_files, worker>>

\* select the pending rows of scan s in order, then mark them by id
StoreClaim(s) ==
  /\ worker[s].items = <<>>
  /\ LET ids == TakeOrdered(crawl_queue,
                            {i \in RowsOf(crawl_queue, s) :
                               crawl_queue[i].status = "pending"},
                            BATCH_SIZE)
     IN /\ ids # <<>>
        /\ crawl_queue' = MarkedProcessing(crawl_queue, ids)
        /\ worker' = [worker EXCEPT ![s].items = ids]
  /\ op' = s
  /\ UNCHANGED <<scans, crawled_files>>

\* processFolder and the mark by id for the next folder of the batch of s
StoreExpand(s) ==
  /\ worker[s].items # <<>>
  /\ LET i == Head(worker[s].items)
         room == Cardinality(RowsOf(crawl_queue, s)) < MaxStoreRows
         marked == [crawl_queue EXCEPT ![i].status = "done"]
     IN \E ok \in BOOLEAN :
          IF ok
          THEN /\ crawled_files' = crawled_files \cup
                    ({[scan_id |-> s, folder |-> i, is_folder |-> FALSE, size_bytes |-> 1]}
                     \cup IF room
                          THEN {[scan_id |-> s, folder |-> i, is_folder |-> TRUE,
                                 size_bytes |-> 3]}
                          ELSE {})
               /\ crawl_queue' = IF room
                                 THEN Append(marked, StoreRow(s, crawl_queue[i].depth + 1))
                                 ELSE marked
               /\ worker' = [worker EXCEPT
                    ![s].items = Tail(@),
                    ![s].add = Add3(@, <<1, IF room THEN 1 ELSE 0, 1>>)]
          ELSE /\ crawl_queue' = [crawl_queue EXCEPT ![i].status = "error",
                                                     ![i].err = "graph_error"]
               /\ worker' = [worker EXCEPT ![s].items = Tail(@)]
               /\ UNCHANGED crawled_files
  /\ op' = s
  /\ UNCHANGED scans

\* updateScanProgress of scan s: progress from the row counts, totals plus the
\* counts of the batch
StoreProgressWrite(s) ==
  /\ LET doneCount == StoreCount(crawl_queue, s, "done")
         totalCount == Cardinality(RowsOf(crawl_queue, s))
         t == Add3(<<scans[s].total_files, scans[s].total_folders,
                     scans[s].total_size_bytes>>, worker[s].add)
     IN scans' = [scans EXCEPT ![s].crawl_progress = Progress(doneCount, totalCount),
                               ![s].total_files = t[1],
                               ![s].total_folders = t[2],
                               ![s].total_size_bytes = t[3]]
  /\ worker' = [worker EXCEPT ![s].add = <<0, 0, 0>>]
  /\ op' = s
  /\ UNCHANGED <<crawl_queue, crawled_files>>

\* updateScanProgress of scan s after its batch
StoreProgress(s) ==
  /\ worker[s].items = <<>> /\ worker[s].add # <<0, 0, 0>>
  /\ StoreProgressWrite(s)

\* finalizeCrawl of scan s: error when every row failed, else crawled with
\* the totals recomputed from the inventory
StoreFinalizeWrite(s) ==
  /\ IF AllFailed(StoreCount(crawl_queue, s, "done"), StoreCount(crawl_queue, s, "error"))
     THEN scans' = [scans EXCEPT ![s].status = "error",
                                 ![s].error_message = "graph_error"]
     ELSE LET mine == FilesOf(crawled_files, s)
          IN scans' = [scans EXCEPT
               ![s].status = "crawled",
               ![s].crawl_progress = ProgressFinal,
               ![s].total_files = Cardinality({r \in mine : ~r.is_folder}),
               ![s].total_folders = Cardinality({r \in mine : r.is_folder}),
               ![s].total_size_bytes =
                  SumOver({r \in mine : ~r.is_folder},
                          [r \in {x \in mine : ~x.is_folder} |-> r.size_bytes])]
  /\ op' = s
  /\ UNCHANGED <<crawl_queue, crawled_files, worker>>

\* finalizeCrawl of scan s, run when s has no pending row
StoreFinalize(s) ==
  /\ worker[s].items = <<>> /\ scans[s].status = "crawling"
  /\ RowsOf(crawl_queue, s) # {} /\ StoreCount(crawl_queue, s, "pending") = 0
  /\ StoreFinalizeWrite(s)

StoreNext ==
  /\ UNCHANGED <<crawlVars, handler, graphVars, analysis>>
  /\ \E s \in ScanIds :
       \/ StoreSeed(s)
       \/ \E now \in {0, TickMinutes} : StoreReclaim(s, now)
       \/ StoreClaim(s)
       \/ StoreExpand(s)
       \/ StoreProgress(s)
       \/ StoreFinalize(s)

StoreSpec == StoreInit /\ [][StoreNext]_vars

\* ------------------------------------------------------ parseSharePointUrl
\* A path is the sequence of its segments between slashes; `trailing` tells
\* that the string ends with a slash.
Segments == {"sites", "teams", "MySite", "Forms", "AllItems.aspx",
             "sites%2FMySite", "%zz"}

\* sequences over S of length at most n
SeqsUpTo(S, n) == UNION {[1..k -> S] : k \in 0..n}

\* /\.aspx$/i on the segments in use
IsAspx(seg) == seg = "AllItems.aspx"

\* request URLs: one string `new URL` rejects, and the strings it accepts by
\* pathname, as the parser leaves it (percent-encoded), and id query
\* parameter, as searchParams.get returns it (decoded; empty when absent)
Urls ==
  {[wellFormed |-> FALSE, pathname |-> <<>>, trailing |-> FALSE, id |-> <<>>]}
  \cup [wellFormed : {TRUE}, pathname : SeqsUpTo(Segments, MaxSegments),
        trailing : BOOLEAN,
        id : {<<>>, <<"sites", "MySite">>, <<"Forms">>,
              <<"sites", "MySite", "Docs", "Forms", "AllItems.aspx">>}]

\* decodeURIComponent throws a URIError on a percent sign that starts no
\* escape sequence
DecodeThrows(segs) == \E i \in Idx(segs) : segs[i] = "%zz"

\* decodeURIComponent followed by split('/').filter(Boolean): an escaped
\* slash separates like a written one
RECURSIVE DecodedParts(_)
DecodedParts(segs) ==
  IF segs = <<>> THEN <<>>
  ELSE (IF Head(segs) = "sites%2FMySite" THEN <<"sites", "MySite">>
        ELSE <<Head(segs)>>) \o DecodedParts(Tail(segs))

\* the view page left in place
KeepView(path) == path

\* effectivePath.replace(/\/Forms\/[^/]+\.aspx$/i, ''), which on these
\* segments is also the replace of /\/Forms\/AllItems\.aspx$/i
StripView(path) ==
  LET n == Len(path.segs)
  IN IF /\ ~path.trailing /\ n >= 2
        /\ path.segs[n - 1] = "Forms" /\ IsAspx(path.segs[n])
     THEN [path EXCEPT !.segs = SubSeq(path.segs, 1, n - 2)]
     ELSE path

\* the outcome of a parse that throws
ParseThrows == [throws |-> TRUE, hostname |-> "", sitePath |-> <<>>, libraryPath |-> <<>>]

\* `/${parts.join('/')}`, a string as the sequence of its separators and names
RECURSIVE SlashJoined(_)
SlashJoined(parts) ==
  IF parts = <<>> THEN <<>>
  ELSE <<"/", Head(parts)>> \o SlashJoined(Tail(parts))

\* parseSharePointUrl: {hostname, sitePath, libraryPath}, or a throw; a null
\* libraryPath is the empty sequence
ParseSharePointUrl(url) ==
  IF ~url.wellFormed THEN ParseThrows
  ELSE IF url.id = <<>> /\ DecodeThrows(url.pathname) THEN ParseThrows
  ELSE LET effectivePath == IF url.id # <<>>
                            THEN [segs |-> url.id, trailing |-> FALSE]
                            ELSE [segs |-> DecodedParts(url.pathname),
                                  trailing |-> url.trailing]
           pathParts == StripView(StripView(effectivePath)).segs
           found == {i \in Idx(pathParts) : pathParts[i] \in {"sites", "teams"}}
           siteIndex == IF found = {} THEN -1
                        ELSE CHOOSE i \in found : \A j \in found : i <= j
       IN IF siteIndex = -1 \/ siteIndex + 1 > Len(pathParts) THEN ParseThrows
          ELSE [throws |-> FALSE, hostname |-> "tenant",
                sitePath |-> <<"/", pathParts[siteIndex],
                               "/", pathParts[siteIndex + 1]>>,
                libraryPath |->
                  SlashJoined(SubSeq(pathParts, siteIndex + 2, Len(pathParts)))]

\* --------------------------------------------- crawl-sharepoint: the handler
\* request bodies: sharepoint_url absent, or a URL
Bodies == [present : {FALSE}, url : {CHOOSE u \in Urls : ~u.wellFormed}]
            \cup [present : {TRUE}, url : Urls]

\* locals of the handler; started: initializeCrawl has been launched
HandlerLocals(pc, body) ==
  [pc |-> pc, sharepoint_url |-> body, parsed |-> ParseThrows,
   response |-> 0, started |-> FALSE]

HandlerInit ==
  /\ handler \in {HandlerLocals("auth", b) : b \in Bodies}
  /\ scans = <<>> /\ crawl_queue = <<>> /\ crawled_files = {}
  /\ worker = <<>> /\ op = "none"
  /\ CrawlIdle /\ GraphIdle /\ AnalysisIdle

\* the catch block: status 500 with err.message
Respond(status) ==
  handler' = [handler EXCEPT !.pc = "responded", !.response = status]

\* verifyAuth, which throws for a request without a valid session
VerifyAuth ==
  /\ handler.pc = "auth"
  /\ \E ok \in BOOLEAN :
       IF ok THEN handler' = [handler EXCEPT !.pc = "body"] ELSE Respond(500)
  /\ UNCHANGED <<scans, crawl_queue, crawled_files, worker, op>>

\* if (!sharepoint_url) return 400
CheckBody ==
  /\ handler.pc = "body"
  /\ IF ~handler.sharepoint_url.present
     THEN Respond(400)
     ELSE handler' = [handler EXCEPT !.pc = "parse"]
  /\ UNCHANGED <<scans, crawl_queue, crawled_files, worker, op>>

\* the handler going on to create the scan after a failed parse
ParseUrlLenient ==
  /\ handler.pc = "parse"
  /\ handler' = [handler EXCEPT !.pc = "insert",
                                !.parsed = ParseSharePointUrl(handler.sharepoint_url.url)]
  /\ UNCHANGED <<scans, crawl_queue, crawled_files, worker, op>>

ParseUrl ==
  /\ handler.pc = "parse"
  /\ LET parsed == ParseSharePointUrl(handler.sharepoint_url.url)
     IN IF parsed.throws
        THEN Respond(500)
        ELSE handler' = [handler EXCEPT !.pc = "insert", !.parsed = parsed]
  /\ UNCHANGED <<scans, crawl_queue, crawled_files, worker, op>>

\* insert the scans row with status crawling, start initializeCrawl in the
\* background and answer with the scan id; a rejected insert throws
InsertScan ==
  /\ handler.pc = "insert"
  /\ \E ok \in BOOLEAN :
       IF ok
       THEN /\ scans' = [s \in {"A"} |-> NewScan]
            /\ handler' = [handler EXCEPT !.pc = "responded", !.response = 200,
                                          !.started = TRUE]
       ELSE Respond(500) /\ UNCHANGED scans
  /\ UNCHANGED <<crawl_queue, crawled_files, worker, op>>

HandlerNext ==
  /\ UNCHANGED <<crawlVars, graphVars, analysis>>
  /\ \/ VerifyAuth \/ CheckBody \/ ParseUrl \/ InsertScan

HandlerSpec == HandlerInit /\ [][HandlerNext]_vars

\* ------------------------------------------- graph client: graphFetch
\* One graphFetch call with its recursive retries.  The remote answers the
\* requests of the call with the responses of `script`, in order.
\* Retry-After header values; NoHeader stands for a response without one
NoHeader == -1
RetryAfterValues == {NoHeader, 0, 3}

Throttled == [status : {TooManyRequests}, retryAfter : RetryAfterValues]
FinalResponses == [status : {200, 404}, retryAfter : {NoHeader}]

\* k throttled responses, k <= MaxThrottled, and then one that is not
Scripts ==
  {t \o <<f>> : t \in SeqsUpTo(Throttled, MaxThrottled), f \in FinalResponses}

\* provider_tokens rows of the user: none, or a token pair with its expiry;
\* refresh_token 0 is NULL
TokenRows(t) ==
  {[exists |-> FALSE, access_token |-> 0, refresh_token |-> 0, expires_at |-> 0]}
  \cup [exists : {TRUE}, access_token : {1}, refresh_token : {0, 1},
        expires_at : {t, t + BufferSeconds, t + BufferSeconds + 1,
                      t + 2 * BufferSeconds}]

\* token response of the identity provider; refresh_token 0: none returned
NoRefreshed == [access_token |-> 0, refresh_token |-> 0, expires_in |-> 0]

GraphLocals(script) ==
  [pc |-> "token", path |-> "/sites/x", options |-> "GET", script |-> script,
   rest |-> script, calls |-> <<>>, pauses |-> <<>>,
   outcome |-> [kind |-> "none", status |-> 0],
   token |-> 0, tokenRow |-> CHOOSE r \in TokenRows(0) : ~r.exists,
   refreshed |-> NoRefreshed, idpCalls |-> 0]

GraphInit ==
  /\ time = 1000
  /\ provider_tokens \in TokenRows(time)
  /\ gf \in {GraphLocals(script) : script \in Scripts}
  /\ StoreIdle /\ handler = "idle" /\ CrawlIdle /\ AnalysisIdle

\* the call ends with an exception
Throw(kind, status) ==
  gf' = [gf EXCEPT !.pc = "done", !.outcome = [kind |-> kind, status |-> status]]

\* the stored token counts as valid also when it expires exactly at the buffer
TokenFreshInclusive(row, t) == row.expires_at - t >= BufferSeconds

\* expiresAt.getTime() - time.getTime() > bufferMs
TokenFresh(row, t) == row.expires_at - t > BufferSeconds

\* getGraphToken up to its first return, throw or the start of the refresh
GetGraphToken ==
  /\ gf.pc = "token"
  /\ LET tokenRow == provider_tokens
     IN IF ~tokenRow.exists THEN Throw("token_error", 0)
        ELSE IF TokenFresh(tokenRow, time)
        THEN gf' = [gf EXCEPT !.pc = "fetch", !.token = tokenRow.access_token,
                              !.tokenRow = tokenRow]
        ELSE IF tokenRow.refresh_token = 0 THEN Throw("token_error", 0)
        ELSE gf' = [gf EXCEPT !.pc = "refresh", !.tokenRow = tokenRow]
  /\ UNCHANGED <<provider_tokens, time>>

\* refreshAccessToken: the identity provider refuses, or issues a new access
\* token with or without a new refresh token
RefreshAccessToken ==
  /\ gf.pc = "refresh"
  /\ \E ok \in BOOLEAN, rotated \in BOOLEAN :
       IF ok
       THEN gf' = [gf EXCEPT
              !.pc = "update", !.idpCalls = @ + 1,
              !.refreshed = [access_token |-> gf.tokenRow.access_token + 1,
                             refresh_token |-> IF rotated
                                               THEN gf.tokenRow.refresh_token + 1
                                               ELSE 0,
                             expires_in |-> ExpiresIn]]
       ELSE gf' = [gf EXCEPT !.pc = "done", !.idpCalls = @ + 1,
                             !.outcome = [kind |-> "token_error", status |-> 0]]
  /\ UNCHANGED <<provider_tokens, time>>

\* the row getGraphToken writes after a refresh
RefreshedRow(tokenRow, refreshed, t) ==
  [exists |-> TRUE,
   access_token |-> refreshed.access_token,
   refresh_token |-> IF refreshed.refresh_token # 0 THEN refreshed.refresh_token
                     ELSE tokenRow.refresh_token,
   expires_at |-> t + refreshed.expires_in]

\* update provider_tokens; a rejected update is logged and the refreshed
\* access token is returned all the same
UpdateToken ==
  /\ gf.pc = "update"
  /\ \E updateError \in BOOLEAN :
       provider_tokens' = IF updateError THEN provider_tokens
                          ELSE RefreshedRow(gf.tokenRow, gf.refreshed, time)
  /\ gf' = [gf EXCEPT !.pc = "fetch", !.token = gf.refreshed.access_token]
  /\ UNCHANGED time

\* a pause of DefaultRetryAfter seconds whatever the header says
RetryAfterIgnored(header) == DefaultRetryAfter

\* parseInt(response.headers.get('Retry-After') || '5', 10)
RetryAfter(header) == IF header = NoHeader THEN DefaultRetryAfter ELSE header

\* fetch(url, ...) and the handling of its response
Fetch ==
  /\ gf.pc = "fetch"
  /\ LET response == Head(gf.rest)
         sent == [path |-> gf.path, options |-> gf.options, token |-> gf.token]
     IN IF response.status = TooManyRequests
        THEN gf' = [gf EXCEPT !.pc = "sleep", !.rest = Tail(@),
                              !.calls = Append(@, sent),
                              !.pauses = Append(@, RetryAfter(response.retryAfter))]
        ELSE gf' = [gf EXCEPT
               !.pc = "done", !.rest = Tail(@), !.calls = Append(@, sent),
               !.outcome = [kind |-> IF response.status = 200 THEN "json"
                                     ELSE "graph_error",
                            status |-> response.status]]
  /\ UNCHANGED <<provider_tokens, time>>

\* await sleep(retryAfter * 1000), then graphFetch(userId, path, options)
Sleep ==
  /\ gf.pc = "sleep"
  /\ time' = time + gf.pauses[Len(gf.pauses)]
  /\ gf' = [gf EXCEPT !.pc = "token"]
  /\ UNCHANGED provider_tokens

GraphNext ==
  /\ UNCHANGED <<crawlVars, storeVars, handler, analysis>>
  /\ \/ GetGraphToken \/ RefreshAccessToken \/ UpdateToken \/ Fetch \/ Sleep

GraphSpec == GraphInit /\ [][GraphNext]_vars

\* ------------------------------------------ performCrawl, the in-memory crawl
\* an entry of performCrawl's in-memory queue
MemoryItem(folder, parentItemId, depth, folderPath) ==
  [folder |-> folder, parentItemId |-> parentItemId, depth |-> depth,
   folderPath |-> folderPath]

\* the crawled_files row performCrawl builds for a child of `current`
MemoryFileRow(item, current) ==
  [item |-> item, is_folder |-> IsFolder(item), size_bytes |-> SizeOf(item),
   path |-> current.folderPath \o <<NameOf(item)>>
              \o (IF IsFolder(item) THEN <<"/">> ELSE <<>>),
   depth |-> current.depth + (IF IsFolder(item) THEN 1 ELSE 0),
   parent_item_id |-> current.parentItemId]

\* the while-loop over the in-memory queue q for site T, with every remote
\* read and store write succeeding: rows inserted and running counters
RECURSIVE CrawlLoop(_, _, _, _)
CrawlLoop(T, q, rows, totals) ==
  IF q = <<>> THEN [rows |-> rows, totals |-> totals]
  ELSE LET current == Head(q)
           items == T.kids[current.folder]
           sub == SelectSeq(items, IsFolder)
           pushed == [j \in Idx(sub) |->
                        MemoryItem(sub[j], sub[j], current.depth + 1,
                                   current.folderPath \o <<NameOf(sub[j]), "/">>)]
           counted == <<Cardinality({j \in Idx(items) : ~IsFolder(items[j])}),
                        Len(sub),
                        SumSeq([j \in Idx(items) |->
                                  IF IsFolder(items[j]) THEN 0 ELSE SizeOf(items[j])])>>
       IN CrawlLoop(T, Tail(q) \o pushed,
                    rows (+) SetToBag({MemoryFileRow(items[j], current) : j \in Idx(items)}),
                    Add3(totals, counted))

\* rows and totals performCrawl ends with on site T
PerformCrawl(T) ==
  LET targetDrives == TargetDrives(T.drives, T.libraryPath)
  IN CrawlLoop(T,
               [i \in Idx(targetDrives) |->
                  MemoryItem(targetDrives[i], "null", 0,
                             <<"/", NameOf(targetDrives[i]), "/">>)],
               EmptyBag, <<0, 0, 0>>)

\* ======================================================================
\* no crawl_queue row of the scan is open
Drained == \A i \in Idx(queue) : queue[i].status \notin {"pending", "processing"}

\* C1: in every reachable state, a scan with status `crawled` has no
\* QueueItem with status `pending` or `processing`.
C1_CrawledImpliesDrained == scan.status = "crawled" => Drained

\* C2: no queue item is passed to processFolder by two invocations unless a
\* stale reclaim returned it to `pending` in between: the pending->processing
\* claim admits one claimant per item.
C2_SingleClaimant == \A i \in Idx(queue) : queue[i].exp <= 1 + queue[i].rec

\* C3: with successive, non-overlapping processBatch calls the persisted
\* crawl_progress never decreases.
C3_ProgressMonotone == [][scan'.crawl_progress >= scan.crawl_progress]_vars

\* C4: while the scan's status is `crawling` its crawl_progress is at most
\* 99, and every update that brings the progress to 100 also sets status
\* `crawled`.
C4_ProgressBelow100WhileCrawling ==
  /\ [](scan.status = "crawling" => scan.crawl_progress <= 99)
  /\ [][scan'.crawl_progress = 100 /\ scan.crawl_progress # 100
          => scan'.status = "crawled"]_vars

\* a running crawl whose queue is all done: the clamp holds progress at 99
C4_Witness ==
  /\ scan.status = "crawling"
  /\ scan.crawl_progress = 99
  /\ queue # <<>>
  /\ CountStatus(queue, "done") = Len(queue)

\* <<total_files, total_folders, total_size_bytes>> of the scans row
ScanTotals == <<scan.total_files, scan.total_folders, scan.total_size_bytes>>

\* C5: in every reachable state with status `crawled`, the persisted totals
\* equal the counts and the byte sum of the scan's crawled_files rows.
C5_TotalsExactWhenCrawled ==
  scan.status = "crawled" => ScanTotals = InventoryTotals(files)

\* p takes a step of a processBatch (or continue-crawl) that it entered on a
\* queue whose rows are all `done`
RerunStep(p) ==
  /\ proc'[p] # proc[p]
  /\ \/ proc[p].rerun
     \/ AllDone /\ proc[p].pc \in {"reclaim", "idle"}

\* the scan carries the result of a finalization of the present inventory
Finalized ==
  /\ scan.status = "crawled"
  /\ scan.crawl_progress = 100
  /\ ScanTotals = InventoryTotals(files)

\* no invocation is running
Quiescent == \A p \in Procs : proc[p].pc \in {"idle", "finished"}

\* C6: re-running processBatch, directly or through continue-crawl, on a scan
\* whose queue items are all `done` makes no remote call, changes no
\* crawl_queue and no crawled_files row, and leaves the scan `crawled` with
\* progress 100 and the totals of the first finalization.
C6_RerunIsNoOp ==
  /\ [][\A p \in Procs :
         RerunStep(p) => /\ queue' = queue
                         /\ files' = files
                         /\ Finalized => scan' = scan
                         /\ proc'[p].pc \in {"idle", "finished"} => Finalized']_vars
  /\ [](AllDone /\ Quiescent => Finalized)

\* the seed-time processBatch found every row done and is about to write the
\* result of its finalizeCrawl over a finalized scan
C6_Witness ==
  /\ AllDone
  /\ proc[Seed].rerun /\ proc[Seed].pc = "fin_write"
  /\ scan.status = "crawled"

\* a finalizeCrawl is writing the scan
Finalizing == \E p \in Procs : proc[p].pc \in {"fin_write", "fin_write_err"}

\* error messages of the errored crawl_queue rows
ErrorMessages == {queue[i].err : i \in {j \in Idx(queue) : queue[j].status = "error"}}

\* C7: on a drained queue the write of finalizeCrawl sets status `error`, with the message of an
\* errored queue item, exactly when no queue item is `done` and at least one
\* is `error`; otherwise it sets status `crawled` and progress 100.
C7_FailsOnlyWhenAllFailed ==
  [][Finalizing /\ scan' # scan /\ Drained
       => IF AllFailed(CountStatus(queue, "done"), CountStatus(queue, "error"))
          THEN scan'.status = "error" /\ scan'.error_message \in ErrorMessages
          ELSE scan'.status = "crawled" /\ scan'.crawl_progress = 100]_vars

\* C8: the only status changes of the scan are crawling->crawled and
\* crawling->error.
C8_StatusTransitions ==
  [][scan'.status # scan.status
       => scan.status = "crawling" /\ scan'.status \in {"crawled", "error"}]_vars

\* status moves of a crawl_queue row
AllowedMoves == {<<"pending", "processing">>, <<"processing", "done">>,
                 <<"processing", "error">>, <<"processing", "pending">>}

\* C9: a QueueItem's status moves only pending->processing, processing->done,
\* processing->error or, by stale reclaim, processing->pending; `done` and
\* `error` are final.
C9_QueueItemTransitions ==
  [][\A i \in Idx(queue) :
       \/ queue'[i].status = queue[i].status
       \/ /\ <<queue[i].status, queue'[i].status>> \in AllowedMoves
          /\ queue'[i].status = "pending" => queue'[i].rec = queue[i].rec + 1]_vars

Abandoned(i) ==
  /\ queue[i].status = "processing"
  /\ \A p \in Procs : \A k \in Idx(proc[p].items) : proc[p].items[k] # i

\* C11: with one invocation at a time, an item left `processing` by an
\* invocation that died is expanded by a later poll before the scan is marked
\* `crawled`: a `crawled` scan has no abandoned item.
C11_AbandonedItemsRecovered ==
  scan.status = "crawled" => \A i \in Idx(queue) : ~Abandoned(i)

\* crawled_files holds at most one row per remote item id
UniqueInventory ==
  \A r1 \in BagToSet(files) :
    /\ files[r1] = 1
    /\ \A r2 \in BagToSet(files) : r1.item = r2.item => r1 = r2

\* crawl_queue holds at most one row per remote folder
UniqueQueue ==
  \A i, j \in Idx(queue) : queue[i].folder = queue[j].folder => i = j

\* C12: as long as a folder is expanded again only after a stale reclaim
\* (at-least-once processing), crawled_files holds at most one row per remote
\* item id and crawl_queue at most one row per remote folder.
C12_NoDuplicateRows == C2_SingleClaimant => UniqueInventory /\ UniqueQueue

\* err.message of a failed site resolution or drive enumeration
SeedErrors == {"no_drives", "graph_error"}

\* C16: when site resolution or drive enumeration fails, initializeCrawl
\* sets status `error` with the failure's message, the scan has no crawl_queue
\* and no crawled_files row, and no later step, of a poll or otherwise,
\* changes the scan.
C16_SeedingFailureIsFinal ==
  /\ [][proc[Seed].pc = "init_catch" /\ proc'[Seed].pc # "init_catch"
          => scan'.status = "error" /\ scan'.error_message \in SeedErrors]_vars
  /\ [](scan.error_message \in SeedErrors
          => scan.status = "error" /\ queue = <<>> /\ files = EmptyBag)
  /\ [][scan.error_message \in SeedErrors => scan' = scan]_vars

\* seeding has failed while a poll that saw status `crawling` is inside its batch
C16_Witness ==
  /\ scan.status = "error" /\ scan.error_message \in SeedErrors
  /\ proc["p1"].pc = "count_total"

\* C14: with one invocation at a time and no failure, a crawl that ends
\* `crawled` with every queue row done has exactly the crawled_files rows and
\* the totals of performCrawl on the same site.
C14_SameResultAsPerformCrawl ==
  scan.status = "crawled" /\ AllDone
    => /\ files = PerformCrawl(tree).rows
       /\ ScanTotals = PerformCrawl(tree).totals

\* the three-level site has been crawled to the end
C14_Witness == scan.status = "crawled" /\ AllDone /\ tree = TreeFan /\ Quiescent

\* folders of the rows of q
FoldersOf(q) == {q[i].folder : i \in Idx(q)}

\* a root row as seeding is to build it
WellFormedRoot(row) ==
  /\ row.depth = 0 /\ row.status = "pending" /\ row.parent_item_id = "null"
  /\ row.folder_path = <<"/", NameOf(row.folder), "/">>

\* one well-formed root row per drive of D, and no other row
SeededWith(q, D) ==
  /\ FoldersOf(q) = D /\ Len(q) = Cardinality(D)
  /\ \A i \in Idx(q) : WellFormedRoot(q[i])

\* the site's drives, and those named like the first segment of the request's
\* library path, ignoring case
AllDrives == {tree.drives[i] : i \in Idx(tree.drives)}
MatchingDrives ==
  {d \in AllDrives : ToLowerCase(NameOf(d)) = ToLowerCase(tree.libraryPath[1])}

\* C17 as stated: seeding inserts exactly one well-formed root row per target
\* drive; the targets are exactly the drive whose name matches the library
\* segment when there is one, and all drives of the site when there is none.
C17_SeedsMatchingDrive ==
  [][queue = <<>> /\ queue' # <<>>
       => IF tree.libraryPath = <<>>
          THEN SeededWith(queue', AllDrives)
          ELSE SeededWith(queue', MatchingDrives) /\ Len(queue') = 1]_vars

\* C17 amended: with a library segment the single target is a drive whose
\* name matches it ignoring case or, when no drive matches, the site's first
\* drive.
C17_SeedsTargetDrives ==
  [][queue = <<>> /\ queue' # <<>>
       => IF tree.libraryPath = <<>>
          THEN SeededWith(queue', AllDrives)
          ELSE /\ Len(queue') = 1 /\ WellFormedRoot(queue'[1])
               /\ IF MatchingDrives # {}
                  THEN queue'[1].folder \in MatchingDrives
                  ELSE queue'[1].folder = tree.drives[1]]_vars

\* seeded for a request whose library segment names no drive
C17_Witness ==
  /\ tree.libraryPath = <<"Archive">>
  /\ proc[Seed].pc = "reclaim" /\ Len(queue) = 1

\* what the store holds for scan b: its scans row, its queue rows, its files
ViewOf(b) ==
  [scan |-> scans[b],
   queue |-> [i \in RowsOf(crawl_queue, b) |-> crawl_queue[i]],
   files |-> FilesOf(crawled_files, b)]

\* C13: a store statement run for one scan leaves the scans row, the
\* crawl_queue rows and the crawled_files rows of every other scan unchanged.
C13_ScanIsolation ==
  [][\A b \in ScanIds : b # op' => ViewOf(b)' = ViewOf(b)]_vars

\* a statement has run for scan A, which has a done row, while scan B has a
\* row in `processing`
C13_Witness ==
  /\ op = "A" /\ worker["A"].items = <<>>
  /\ \E i \in RowsOf(crawl_queue, "B") : crawl_queue[i].status = "processing"
  /\ \E i \in RowsOf(crawl_queue, "A") : crawl_queue[i].status = "done"

\* C15: a request without sharepoint_url, or with a URL that
\* parseSharePointUrl rejects, is answered with an error status and leaves
\* the store without any scans, crawl_queue or crawled_files row; no crawl is
\* started for it.
C15_InputErrorCreatesNothing ==
  handler.pc = "responded"
    /\ (\/ ~handler.sharepoint_url.present
        \/ ParseSharePointUrl(handler.sharepoint_url.url).throws)
    => /\ handler.response \in {400, 500}
       /\ DOMAIN scans = {} /\ crawl_queue = <<>> /\ crawled_files = {}
       /\ ~handler.started

\* an authenticated request whose URL has no site segment has been answered
C15_Witness ==
  /\ handler.pc = "responded" /\ handler.response = 500
  /\ handler.sharepoint_url.present
  /\ handler.sharepoint_url.url.wellFormed
  /\ handler.sharepoint_url.url.pathname = <<"MySite", "Forms", "AllItems.aspx">>
  /\ handler.sharepoint_url.url.id = <<>>

\* the pauses the claim prescribes for a script: one per throttled response,
\* its Retry-After seconds, 5 when the header is absent
PrescribedPauses(script) ==
  [i \in 1..(Len(script) - 1) |->
     IF script[i].retryAfter = NoHeader THEN 5 ELSE script[i].retryAfter]

\* C18: a graphFetch call answered 429 k times and then otherwise, and whose
\* token lookups succeed, pauses after each 429 for the Retry-After seconds
\* (5 without the header), sends the same path and options k+1 times, and
\* ends with the outcome of the final response; no call ends with a 429.
C18_ThrottlingIsTransparent ==
  /\ gf.outcome.status # 429
  /\ gf.pc = "done" /\ gf.outcome.kind \in {"json", "graph_error"}
       => /\ Len(gf.calls) = Len(gf.script)
          /\ \A i \in Idx(gf.calls) :
               gf.calls[i].path = gf.path /\ gf.calls[i].options = gf.options
          /\ gf.pauses = PrescribedPauses(gf.script)
          /\ time = 1000 + SumSeq(PrescribedPauses(gf.script))
          /\ gf.outcome.status = gf.script[Len(gf.script)].status
          /\ gf.outcome.kind = "json" <=> gf.script[Len(gf.script)].status = 200

\* a call throttled twice, the first time without a Retry-After header, has
\* returned the body of the third response
C18_Witness ==
  /\ gf.pc = "done" /\ gf.outcome.kind = "json"
  /\ Len(gf.script) = 3 /\ gf.script[1].retryAfter = NoHeader
  /\ gf.script[2].retryAfter = 3

\* the first step of getGraphToken: no row, or a stale row without refresh
\* token: it fails; expiry more than 5 minutes ahead: it returns the stored
\* access token; otherwise it turns to the identity provider.  The stored row
\* is not written and the identity provider not contacted.
TokenReadRule ==
  gf.pc = "token"
    => /\ provider_tokens' = provider_tokens /\ gf'.idpCalls = gf.idpCalls
       /\ IF ~provider_tokens.exists
          THEN gf'.pc = "done" /\ gf'.outcome.kind = "token_error"
          ELSE IF provider_tokens.expires_at - time > 300
          THEN gf'.pc = "fetch" /\ gf'.token = provider_tokens.access_token
          ELSE IF provider_tokens.refresh_token = 0
          THEN gf'.pc = "done" /\ gf'.outcome.kind = "token_error"
          ELSE gf'.pc = "refresh"

\* the exchange contacts the identity provider and writes nothing
TokenExchangeRule ==
  gf.pc = "refresh"
    => gf'.idpCalls = gf.idpCalls + 1 /\ provider_tokens' = provider_tokens

\* the stored row after the step is the refreshed pair
Persisted ==
  /\ provider_tokens'.access_token = gf.refreshed.access_token
  /\ provider_tokens'.expires_at = time + gf.refreshed.expires_in
  /\ provider_tokens'.refresh_token =
       IF gf.refreshed.refresh_token # 0 THEN gf.refreshed.refresh_token
       ELSE provider_tokens.refresh_token

\* after the exchange the new access token, not the stored one, is returned
ReturnsNewToken ==
  /\ gf'.pc = "fetch" /\ gf'.token = gf.refreshed.access_token
  /\ gf'.token # provider_tokens.access_token

\* C19 as stated: getGraphToken returns the stored access token without
\* contacting the identity provider exactly when the stored expiry is more
\* than 5 minutes ahead; otherwise it exchanges the refresh token, persists
\* the new pair and returns the new access token; it fails, leaving the stored
\* row as it is, without a row or without a refresh token when one is needed.
C19_RefreshPersistsNewPair ==
  [][/\ TokenReadRule /\ TokenExchangeRule
     /\ gf.pc = "update" => ReturnsNewToken /\ Persisted]_vars

\* C19 amended: after the exchange the new access token is returned whether
\* or not the store accepted the new pair; a rejected update leaves the
\* stored row as it was.
C19_RefreshReturnsNewToken ==
  [][/\ TokenReadRule /\ TokenExchangeRule
     /\ gf.pc = "update"
          => ReturnsNewToken /\ (Persisted \/ provider_tokens' = provider_tokens)]_vars

\* a token that expired exactly at the buffer was exchanged and the new pair
\* is stored
C19_Witness ==
  /\ gf.idpCalls = 1 /\ gf.pc = "fetch" /\ gf.token = 2
  /\ gf.tokenRow.expires_at = 1000 + 300
  /\ provider_tokens.access_token = 2 /\ provider_tokens.refresh_token = 2

\* ---------------------------------------------------------------------
\* analyze: the rules engine, the classifier pass, dedup and store.
\* Names and paths are sequences of characters; times are hours since the
\* epoch, 0 standing for a null timestamp.

UpperCase == <<"A", "B", "C", "D", "E", "F", "G", "H", "I", "J", "K", "L", "M", "N", "O", "P", "Q", "R", "S", "T", "U", "V", "W", "X", "Y", "Z">>
LowerCase == <<"a", "b", "c", "d", "e", "f", "g", "h", "i", "j", "k", "l", "m", "n", "o", "p", "q", "r", "s", "t", "u", "v", "w", "x", "y", "z">>
Digits == {"0", "1", "2", "3", "4", "5", "6", "7", "8", "9"}

IsUpper(c) == \E i \in Idx(UpperCase) : UpperCase[i] = c
IsLower(c) == \E i \in Idx(LowerCase) : LowerCase[i] = c
IsDigit(c) == c \in Digits
\* \w
IsWord(c) == IsUpper(c) \/ IsLower(c) \/ IsDigit(c) \/ c = "_"
\* \s, for names whose only white space is the blank
IsSpace(c) == c = " "
\* [_\s-]
IsSep(c) == c = "_" \/ IsSpace(c) \/ c = "-"

LowerChar(c) ==
  IF IsUpper(c) THEN LowerCase[CHOOSE i \in Idx(UpperCase) : UpperCase[i] = c]
  ELSE c

\* String.prototype.toLowerCase
Lower(s) == [i \in Idx(s) |-> LowerChar(s[i])]

StartsWith(s, p) == Len(s) >= Len(p) /\ SubSeq(s, 1, Len(p)) = p
EndsWith(s, p) == Len(s) >= Len(p) /\ SubSeq(s, Len(s) - Len(p) + 1, Len(s)) = p
\* the positions at which p occurs in s
Occurrences(s, p) ==
  {i \in 1..(Len(s) - Len(p) + 1) : SubSeq(s, i, i + Len(p) - 1) = p}
AllOf(s, from, Test(_)) == \A j \in from..Len(s) : Test(s[j])

\* /[_\s-]word/i : a separator followed by the word, anywhere
SepWord(s, w) == \E i \in Occurrences(Lower(s), w) : i > 1 /\ IsSep(s[i - 1])
\* /[_\s-]word$/i
SepWordAtEnd(s, w) ==
  EndsWith(Lower(s), w) /\ Len(s) > Len(w) /\ IsSep(s[Len(s) - Len(w)])
\* /[_\s-]word\d+/i
SepWordDigit(s, w) ==
  \E i \in Occurrences(Lower(s), w) :
    /\ i > 1 /\ IsSep(s[i - 1])
    /\ i + Len(w) <= Len(s) /\ IsDigit(s[i + Len(w)])

\* file.name.replace(/\.\w+$/, ''): dots are the dots that start a trailing
\* /\.\w+$/
NameWithoutExt(name) ==
  LET dots == {i \in 1..(Len(name) - 1) :
                 name[i] = "." /\ AllOf(name, i + 1, IsWord)}
  IN IF dots = {} THEN name
     ELSE SubSeq(name, 1, (CHOOSE i \in dots : \A j \in dots : i <= j) - 1)

\* tempPatterns.some(p => p.test(file.name))
TempPattern(name) ==
  \/ StartsWith(name, <<"~", "$">>)
  \/ EndsWith(Lower(name), <<".", "t", "m", "p">>)
  \/ Lower(name) = <<"t", "h", "u", "m", "b", "s", ".", "d", "b">>
  \/ Lower(name) = <<".", "d", "s", "_", "s", "t", "o", "r", "e">>
  \/ Lower(name) = <<"d", "e", "s", "k", "t", "o", "p", ".", "i", "n", "i">>
  \/ Lower(name) = <<".", "g", "i", "t", "k", "e", "e", "p">>
  \/ StartsWith(name, <<"~", "l", "o", "c", "k", ".">>)

\* BACKUP_PATTERNS.some(p => p.test(nameWithoutExt) || p.test(file.name))
BackupPattern(name) ==
  LET \* /\(\d+\)$/
      ParenNumberAtEnd(s) ==
        /\ Len(s) >= 3 /\ s[Len(s)] = ")"
        /\ \E i \in 1..(Len(s) - 2) :
             s[i] = "(" /\ \A j \in (i + 1)..(Len(s) - 1) : IsDigit(s[j])
      \* /[_\s-]copy(?:\s?\d+)?$/i
      SepCopyAtEnd(s) ==
        \E i \in Occurrences(Lower(s), <<"c", "o", "p", "y">>) :
          /\ i > 1 /\ IsSep(s[i - 1])
          /\ LET rest == SubSeq(s, i + 4, Len(s))
             IN \/ rest = <<>>
                \/ AllOf(rest, 1, IsDigit)
                \/ IsSpace(rest[1]) /\ Len(rest) >= 2 /\ AllOf(rest, 2, IsDigit)
      \* one string against the six patterns; /\(\d+\)(?:\.\w+)?$/ allows an
      \* extension after the parenthesis
      Test(s) ==
        \/ SepWordAtEnd(s, <<"b", "a", "c", "k", "u", "p">>)
        \/ SepWordAtEnd(s, <<"b", "a", "k">>)
        \/ SepWordAtEnd(s, <<"o", "l", "d">>)
        \/ StartsWith(Lower(s), <<"c", "o", "p", "y", " ", "o", "f", " ">>)
        \/ ParenNumberAtEnd(s) \/ ParenNumberAtEnd(NameWithoutExt(s))
        \/ SepCopyAtEnd(s)
  IN Test(NameWithoutExt(name)) \/ Test(name)

\* VERSION_SUFFIX_PATTERNS.some(p => p.test(nameWithoutExt))
VersionSuffixPattern(name) ==
  LET s == NameWithoutExt(name)
  IN \* /[_\s-]final[_\s-]?v?\d*/i matches what /[_\s-]final/i matches
     \/ SepWordDigit(s, <<"v">>)
     \/ SepWordDigit(s, <<"v", "e", "r">>)
     \/ SepWord(s, <<"f", "i", "n", "a", "l">>)
     \/ SepWord(s, <<"d", "r", "a", "f", "t">>)
     \/ SepWord(s, <<"r", "e", "v">>)
     \/ SepWord(s, <<"e", "d", "i", "t", "e", "d">>)
     \/ SepWord(s, <<"u", "p", "d", "a", "t", "e", "d">>)
     \/ SepWordAtEnd(s, <<"n", "e", "w">>)
     \/ SepWordAtEnd(s, <<"l", "a", "t", "e", "s", "t">>)

\* ALL_CAPS_PATTERN.test(file.name)
AllCapsPattern(name) ==
  \E i \in 9..(Len(name) - 1) :
    /\ name[i] = "."
    /\ \A j \in 1..(i - 1) : IsUpper(name[j]) \/ IsDigit(name[j]) \/ IsSep(name[j])
    /\ AllOf(name, i + 1, IsWord)

\* SPECIAL_CHAR_PATTERN.test(file.name); "grave" is the grave accent
SpecialCharPattern(name) ==
  \E i \in Idx(name) :
    name[i] \in {"#", "%", "&", "{", "}", "\\", "<", ">", "*", "?", "/", "$",
                 "!", "'", "\"", ":", "@", "+", "grave", "|", "="}

ArchiveSuffixes == {<<".", "z", "i", "p">>, <<".", "r", "a", "r">>, <<".", "7", "z">>, <<".", "t", "a", "r", ".", "g", "z">>, <<".", "t", "g", "z">>}

\* /\.(zip|rar|7z|tar\.gz|tgz)$/i.test(f.name)
ArchivePattern(name) == \E x \in ArchiveSuffixes : EndsWith(Lower(name), x)

\* zip.name.replace(/\.(zip|rar|7z|tar\.gz|tgz)$/i, '')
ZipBaseName(name) ==
  IF ArchivePattern(name)
  THEN LET x == CHOOSE x \in ArchiveSuffixes : EndsWith(Lower(name), x)
       IN SubSeq(name, 1, Len(name) - Len(x))
  ELSE name

\* path.substring(0, path.lastIndexOf('/'))
DirOf(path) ==
  LET slashes == {i \in Idx(path) : path[i] = "/"}
  IN IF slashes = {} THEN <<>>
     ELSE SubSeq(path, 1, (CHOOSE i \in slashes : \A j \in slashes : j <= i) - 1)

\* 365.25 * 24 hours
HoursPerYear == 8766
TWO_YEARS == 2 * HoursPerYear
FOUR_YEARS == 4 * HoursPerYear
\* Rule 12: directCount >= 50
OvercrowdedMin == 50

\* a crawled_files row as the rules read it; a folder's path ends with "/"
Row(id, dir, name, is_folder, size, depth, modified) ==
  [id |-> id, name |-> name,
   path |-> dir \o name \o (IF is_folder THEN <<"/">> ELSE <<>>),
   is_folder |-> is_folder, size_bytes |-> size, depth |-> depth,
   modified_at_sp |-> modified]

\* a suggestion draft; confidence in hundredths; description holds the path
\* the text of Rule 8 refers to and is empty for the other rules
Draft(file, category, severity, title, confidence) ==
  [file_id |-> file.id, category |-> category, severity |-> severity,
   title |-> title, description |-> <<>>, current_value |-> file.path,
   confidence |-> confidence]

\* one draft per row, in row order
Drafts(rows, Make(_)) == [i \in Idx(rows) |-> Make(rows[i])]

\* Rule 1: zero-byte files
Rule1(inventory) ==
  Drafts(SelectSeq(inventory, LAMBDA f : ~f.is_folder /\ f.size_bytes = 0),
         LAMBDA f : Draft(f, "delete", "high", <<"E", "m", "p", "t", "y", " ", "f", "i", "l", "e">>, 95))

\* Rule 2: temp / system files
Rule2(inventory) ==
  Drafts(SelectSeq(inventory, LAMBDA f : ~f.is_folder /\ TempPattern(f.name)),
         LAMBDA f : Draft(f, "delete", "critical", <<"T", "e", "m", "p", "o", "r", "a", "r", "y", " ", "f", "i", "l", "e">>, 100))

\* Rule 3: backup / copy pattern files
Rule3(inventory) ==
  Drafts(SelectSeq(inventory, LAMBDA f : ~f.is_folder /\ BackupPattern(f.name)),
         LAMBDA f : Draft(f, "delete", "high", <<"B", "a", "c", "k", "u", "p", "/", "c", "o", "p", "y", " ", "f", "i", "l", "e">>, 80))

\* Rule 4: version suffix in filename
Rule4(inventory) ==
  Drafts(SelectSeq(inventory, LAMBDA f : ~f.is_folder /\ VersionSuffixPattern(f.name)),
         LAMBDA f : Draft(f, "rename", "medium", <<"V", "e", "r", "s", "i", "o", "n", " ", "s", "u", "f", "f", "i", "x", " ", "i", "n", " ", "f", "i", "l", "e", "n", "a", "m", "e">>, 75))

\* Rule 5: ALL CAPS filenames
Rule5(inventory) ==
  Drafts(SelectSeq(inventory, LAMBDA f : ~f.is_folder /\ AllCapsPattern(f.name)),
         LAMBDA f : Draft(f, "rename", "low", <<"A", "L", "L", " ", "C", "A", "P", "S", " ", "f", "i", "l", "e", "n", "a", "m", "e">>, 70))

\* Rule 6: special characters in filename
Rule6(inventory) ==
  Drafts(SelectSeq(inventory, LAMBDA f : ~f.is_folder /\ SpecialCharPattern(f.name)),
         LAMBDA f : Draft(f, "rename", "medium", <<"S", "p", "e", "c", "i", "a", "l", " ", "c", "h", "a", "r", "a", "c", "t", "e", "r", "s", " ", "i", "n", " ", "f", "i", "l", "e", "n", "a", "m", "e">>, 85))

\* Rule 7: very old files (> 4 years), stale files (> 2 years)
Rule7(inventory, now) ==
  Drafts(SelectSeq(inventory, LAMBDA f : /\ ~f.is_folder /\ f.modified_at_sp # 0
                                     /\ now - f.modified_at_sp > TWO_YEARS),
         LAMBDA f : IF now - f.modified_at_sp > FOUR_YEARS
                    THEN Draft(f, "delete", "medium", <<"V", "e", "r", "y", " ", "o", "l", "d", " ", "f", "i", "l", "e">>, 60)
                    ELSE Draft(f, "archive", "medium", <<"S", "t", "a", "l", "e", " ", "f", "i", "l", "e">>, 65))

NameSizeKeyCaseSensitive(f) == <<f.name, f.size_bytes>>

\* `${file.name.toLowerCase()}::${file.size_bytes}`
NameSizeKey(f) == <<Lower(f.name), f.size_bytes>>

\* dupes.sort by modified_at_sp (null as 0) descending; the sort is stable
RECURSIVE SortDupes(_)
SortDupes(rows) ==
  IF rows = <<>> THEN <<>>
  ELSE LET i == CHOOSE i \in Idx(rows) :
                  /\ \A j \in Idx(rows) : rows[j].modified_at_sp <= rows[i].modified_at_sp
                  /\ \A j \in 1..(i - 1) : rows[j].modified_at_sp < rows[i].modified_at_sp
       IN <<rows[i]>> \o SortDupes(SubSeq(rows, 1, i - 1) \o SubSeq(rows, i + 1, Len(rows)))

\* the groups in the order of their first members; dupes is the sorted
\* group whose first member is inventory[i]
RECURSIVE Rule8From(_, _)
Rule8From(inventory, i) ==
  IF i > Len(inventory) THEN <<>>
  ELSE LET dupes == SortDupes(SelectSeq(inventory, LAMBDA f :
                      ~f.is_folder /\ NameSizeKey(f) = NameSizeKey(inventory[i])))
           isFirst == /\ ~inventory[i].is_folder
                      /\ \A j \in 1..(i - 1) :
                           \/ inventory[j].is_folder
                           \/ NameSizeKey(inventory[j]) # NameSizeKey(inventory[i])
       IN (IF isFirst /\ Len(dupes) >= 2
           THEN Drafts(Tail(dupes), LAMBDA f :
                  [Draft(f, "delete", "high", <<"D", "u", "p", "l", "i", "c", "a", "t", "e", " ", "f", "i", "l", "e">>, 85)
                     EXCEPT !.description = dupes[1].path])
           ELSE <<>>)
          \o Rule8From(inventory, i + 1)

\* Rule 8: duplicate detection (same name + same size)
Rule8(inventory) == Rule8From(inventory, 1)

\* files.find: a folder named like the archive whose path starts with the
\* archive's directory
HasMatchingFolder(inventory, zip) ==
  \E i \in Idx(inventory) :
    /\ inventory[i].is_folder
    /\ Lower(inventory[i].name) = Lower(ZipBaseName(zip.name))
    /\ StartsWith(inventory[i].path, DirOf(zip.path))

\* Rule 9: zip files with unzipped contents nearby
Rule9(inventory) ==
  Drafts(SelectSeq(inventory, LAMBDA f : /\ ~f.is_folder /\ ArchivePattern(f.name)
                                     /\ HasMatchingFolder(inventory, f)),
         LAMBDA f : Draft(f, "delete", "medium", <<"A", "r", "c", "h", "i", "v", "e", " ", "w", "i", "t", "h", " ", "e", "x", "t", "r", "a", "c", "t", "e", "d", " ", "c", "o", "n", "t", "e", "n", "t", "s">>, 75))

Rule10Deeper(inventory) ==
  Drafts(SelectSeq(inventory, LAMBDA f : f.is_folder /\ f.depth > 5),
         LAMBDA f : Draft(f, "structure", "high", <<"D", "e", "e", "p", "l", "y", " ", "n", "e", "s", "t", "e", "d", " ", "f", "o", "l", "d", "e", "r">>, 80))

\* Rule 10: deep folder detection (depth > 4)
Rule10(inventory) ==
  Drafts(SelectSeq(inventory, LAMBDA f : f.is_folder /\ f.depth > 4),
         LAMBDA f : Draft(f, "structure", "high", <<"D", "e", "e", "p", "l", "y", " ", "n", "e", "s", "t", "e", "d", " ", "f", "o", "l", "d", "e", "r">>, 80))

\* folderChildCounts.get(folder.path) || 0
FolderChildCount(inventory, folder) ==
  Cardinality({i \in Idx(inventory) :
                 ~inventory[i].is_folder /\ DirOf(inventory[i].path) = folder.path})

\* Rule 11: sparse folders (1-2 files)
Rule11(inventory) ==
  Drafts(SelectSeq(inventory, LAMBDA f : /\ f.is_folder
                                     /\ FolderChildCount(inventory, f) > 0
                                     /\ FolderChildCount(inventory, f) <= 2
                                     /\ f.depth > 1),
         LAMBDA f : Draft(f, "structure", "medium", <<"S", "p", "a", "r", "s", "e", " ", "f", "o", "l", "d", "e", "r">>, 70))

\* folderDirectChildren.get(folder.path) || 0
FolderDirectCount(inventory, folder) ==
  Cardinality({i \in Idx(inventory) : DirOf(inventory[i].path) = folder.path})

\* Rule 12: overcrowded folders (50+ children)
Rule12(inventory) ==
  Drafts(SelectSeq(inventory, LAMBDA f : /\ f.is_folder
                                     /\ FolderDirectCount(inventory, f) >= OvercrowdedMin),
         LAMBDA f : Draft(f, "structure", "medium", <<"O", "v", "e", "r", "c", "r", "o", "w", "d", "e", "d", " ", "f", "o", "l", "d", "e", "r">>, 75))

\* Phase 1: the drafts of the twelve rules, in rule order
RulesEngine(inventory, now) ==
  Rule1(inventory) \o Rule2(inventory) \o Rule3(inventory) \o Rule4(inventory) \o Rule5(inventory)
  \o Rule6(inventory) \o Rule7(inventory, now) \o Rule8(inventory) \o Rule9(inventory)
  \o Rule10(inventory) \o Rule11(inventory) \o Rule12(inventory)

\* rulesMatchedFileIds after Phase 1
RulesMatchedFileIds(drafts) == {drafts[i].file_id : i \in Idx(drafts)}

KeyIgnoringTitle(s) ==
  [item |-> s.file_id,
   path |-> IF s.file_id # 0 THEN <<>> ELSE s.current_value,
   category |-> s.category, title |-> <<>>]

UniqueSuggestionsKeepLast(suggestions) ==
  LET last == {k \in Idx(suggestions) :
                 \A j \in (k + 1)..Len(suggestions) :
                   \/ suggestions[j].file_id # suggestions[k].file_id
                   \/ suggestions[j].current_value # suggestions[k].current_value
                   \/ suggestions[j].category # suggestions[k].category
                   \/ suggestions[j].title # suggestions[k].title}
      at(n) == CHOOSE k \in last : Cardinality({j \in last : j <= k}) = n
  IN [n \in 1..Cardinality(last) |-> suggestions[at(n)]]

\* `${s.file_id || s.current_value}::${s.category}::${s.title}`; a null
\* file_id is 0
Key(s) ==
  [item |-> s.file_id,
   path |-> IF s.file_id # 0 THEN <<>> ELSE s.current_value,
   category |-> s.category, title |-> s.title]

RECURSIVE UniqueFrom(_, _)
UniqueFrom(s, seen) ==
  IF s = <<>> THEN <<>>
  ELSE IF Key(Head(s)) \in seen THEN UniqueFrom(Tail(s), seen)
  ELSE <<Head(s)>> \o UniqueFrom(Tail(s), seen \cup {Key(Head(s))})

\* Phase 3: suggestions.filter with the `seen` set
UniqueSuggestions(suggestions) == UniqueFrom(suggestions, {})
UncaughtFilesAll(inventory, matched) == inventory

GroupsFromEach(uncaught, i) == [k \in Idx(uncaught) |-> <<uncaught[k]>>]


\* file.path.split('/').filter(Boolean)[0] || 'root'
TopFolder(path) ==
  LET starts == {i \in Idx(path) : path[i] # "/"}
  IN IF starts = {} THEN <<"r", "o", "o", "t">>
     ELSE LET a == CHOOSE i \in starts : \A j \in starts : i <= j
              ends == {i \in a..Len(path) : i = Len(path) \/ path[i + 1] = "/"}
          IN SubSeq(path, a, CHOOSE i \in ends : \A j \in ends : i <= j)

\* filesByTopFolder: the groups in the order of their first members
RECURSIVE GroupsFrom(_, _)
GroupsFrom(uncaught, i) ==
  IF i > Len(uncaught) THEN <<>>
  ELSE (IF \A j \in 1..(i - 1) :
             TopFolder(uncaught[j].path) # TopFolder(uncaught[i].path)
        THEN <<SelectSeq(uncaught, LAMBDA f :
                 TopFolder(f.path) = TopFolder(uncaught[i].path))>>
        ELSE <<>>)
       \o GroupsFrom(uncaught, i + 1)

\* the chunk loop: a group opens a new chunk when it would take a non-empty
\* chunk over the batch size
RECURSIVE BuildChunks(_, _, _)
BuildChunks(groups, currentChunk, chunks) ==
  IF groups = <<>>
  THEN IF Len(currentChunk) > 0 THEN Append(chunks, currentChunk) ELSE chunks
  ELSE LET \* what a chunk carries of a row
           ChunkItem(f) ==
             [path |-> f.path, name |-> f.name, size |-> f.size_bytes,
              is_folder |-> f.is_folder, depth |-> f.depth,
              modified |-> f.modified_at_sp]
           folderFiles == Drafts(Head(groups), ChunkItem)
       IN IF Len(currentChunk) + Len(folderFiles) > AnalyzeBatchSize
             /\ Len(currentChunk) > 0
          THEN BuildChunks(Tail(groups), folderFiles, Append(chunks, currentChunk))
          ELSE BuildChunks(Tail(groups), currentChunk \o folderFiles, chunks)

\* files.filter(f => !rulesMatchedFileIds.has(f.id))
UncaughtFiles(inventory, matched) ==
  SelectSeq(inventory, LAMBDA f : f.id \notin matched)

Chunks(inventory, matched) ==
  BuildChunks(GroupsFrom(UncaughtFiles(inventory, matched), 1), <<>>, <<>>)

\* a path no row of the inventory has
UnknownPath == <<"/", "D", "o", "c", "s", "/", "n", "o", "n", "e", ".", "t", "x", "t">>

\* what the classifier may say of an item
AISuggestion(path) ==
  [category |-> "delete", severity |-> "low", title |-> <<"E", "m", "p", "t", "y", " ", "f", "i", "l", "e">>,
   file_path |-> path, confidence |-> 50]

\* the outcomes of one analyzeFiles call: it throws, or returns a list, here
\* the empty one, one suggestion about the first row, or the same suggestion
\* twice about no row
Replies(inventory) ==
  {[ok |-> FALSE, suggestions |-> <<>>], [ok |-> TRUE, suggestions |-> <<>>],
   [ok |-> TRUE, suggestions |-> <<AISuggestion(inventory[1].path)>>],
   [ok |-> TRUE,
    suggestions |-> <<AISuggestion(UnknownPath), AISuggestion(UnknownPath)>>]}

\* the draft pushed for a classifier suggestion; file_id is
\* files.find(f => f.path === s.file_path)?.id || null
AIDraft(inventory, s) ==
  LET hits == {i \in Idx(inventory) : inventory[i].path = s.file_path}
  IN [file_id |-> IF hits = {} THEN 0
                  ELSE inventory[CHOOSE i \in hits : \A j \in hits : i <= j].id,
      category |-> s.category, severity |-> s.severity, title |-> s.title,
      description |-> <<>>, current_value |-> s.file_path,
      confidence |-> s.confidence]

\* the clock of the analysis, hours since the epoch
NowHours == 500000

\* Rows as a crawl writes them: a folder's path ends with "/", a file has the
\* depth of its folder, a folder one more.  Each pool holds the rows of one
\* concern.
NamePool ==
  LET Docs == <<"/", "D", "o", "c", "s", "/">>
  IN {Row(1, Docs, <<"T", "h", "u", "m", "b", "s", ".", "d", "b">>, FALSE, 0, 0, NowHours - 10),
      Row(2, Docs, <<"p", "l", "a", "n", "_", "v", "2", ".", "d", "o", "c", "x">>, FALSE, 5, 0, NowHours - TWO_YEARS),
      Row(3, Docs, <<"p", "l", "a", "n", "_", "o", "l", "d", ".", "d", "o", "c", "x">>, FALSE, 5, 0, NowHours - FOUR_YEARS),
      Row(4, Docs, <<"R", "E", "P", "O", "R", "T", "_", "2", "4", ".", "P", "D", "F">>, FALSE, 7, 0, NowHours - FOUR_YEARS - 1),
      Row(5, Docs, <<"a", "#", "b", ".", "t", "x", "t">>, FALSE, 7, 0, NowHours - TWO_YEARS - 1),
      Row(13, Docs, <<"n", "o", "t", "e", "s", ".", "t", "x", "t">>, FALSE, 3, 0, NowHours - 10)}

\* copies of x.txt: two of equal time, one without time, a later one, one of
\* another size
DuplicatePool ==
  {Row(1, <<"/", "D", "o", "c", "s", "/">>, <<"T", "h", "u", "m", "b", "s", ".", "d", "b">>, FALSE, 0, 0, NowHours - 10),
   Row(6, <<"/", "D", "o", "c", "s", "/">>, <<"x", ".", "t", "x", "t">>, FALSE, 5, 0, NowHours - 10),
   Row(7, <<"/", "D", "o", "c", "s", "/", "a", "/">>, <<"X", ".", "t", "x", "t">>, FALSE, 5, 1, NowHours - 10),
   Row(8, <<"/", "D", "o", "c", "s", "/", "a", "/", "s", "/">>, <<"x", ".", "t", "x", "t">>, FALSE, 5, 2, 0),
   Row(14, <<"/", "D", "o", "c", "s", "/", "b", "/">>, <<"x", ".", "t", "x", "t">>, FALSE, 5, 1, NowHours - 5),
   Row(15, <<"/", "D", "o", "c", "s", "/", "c", "/">>, <<"x", ".", "t", "x", "t">>, FALSE, 6, 1, NowHours - 10)}

\* an archive in /Docs/a with folders of its base name beside it, deeper in
\* its directory, under /Docs/ab and under /Docs/z
ArchivePool ==
  {Row(9, <<"/", "D", "o", "c", "s", "/", "a", "/">>, <<"d", "a", "t", "a", ".", "z", "i", "p">>, FALSE, 9, 1, NowHours - 10),
   Row(19, <<"/", "D", "o", "c", "s", "/", "a", "/">>, <<"o", "t", "h", "e", "r", ".", "7", "z">>, FALSE, 9, 1, NowHours - 10),
   Row(10, <<"/", "D", "o", "c", "s", "/", "a", "/">>, <<"D", "a", "t", "a">>, TRUE, 0, 2, NowHours - 10),
   Row(16, <<"/", "D", "o", "c", "s", "/", "a", "/", "s", "u", "b", "/">>, <<"d", "a", "t", "a">>, TRUE, 0, 3, NowHours - 10),
   Row(17, <<"/", "D", "o", "c", "s", "/", "a", "b", "/">>, <<"d", "a", "t", "a">>, TRUE, 0, 2, NowHours - 10),
   Row(18, <<"/", "D", "o", "c", "s", "/", "z", "/">>, <<"d", "a", "t", "a">>, TRUE, 0, 2, NowHours - 10)}

\* a folder of depth 2 and up to three files of it, a folder of depth 1 and
\* a file of it, a folder of depth 5 and a file of it
FolderPool ==
  {Row(11, <<"/", "D", "o", "c", "s", "/", "a", "/">>, <<"s">>, TRUE, 0, 2, NowHours - 10),
   Row(20, <<"/", "D", "o", "c", "s", "/", "a", "/", "s", "/">>, <<"n", "1", ".", "t", "x", "t">>, FALSE, 3, 2, NowHours - 10),
   Row(21, <<"/", "D", "o", "c", "s", "/", "a", "/", "s", "/">>, <<"n", "2", ".", "t", "x", "t">>, FALSE, 4, 2, NowHours - 10),
   Row(22, <<"/", "D", "o", "c", "s", "/", "a", "/", "s", "/">>, <<"n", "3", ".", "t", "x", "t">>, FALSE, 5, 2, NowHours - 10),
   Row(23, <<"/", "D", "o", "c", "s", "/">>, <<"t">>, TRUE, 0, 1, NowHours - 10),
   Row(24, <<"/", "D", "o", "c", "s", "/", "t", "/">>, <<"m", ".", "t", "x", "t">>, FALSE, 3, 1, NowHours - 10),
   Row(12, <<"/", "D", "o", "c", "s", "/", "a", "/", "b", "/", "c", "/", "d", "/">>, <<"e">>, TRUE, 0, 5, NowHours - 10),
   Row(31, <<"/", "D", "o", "c", "s", "/", "a", "/", "b", "/", "c", "/", "d", "/", "e", "/">>, <<"k", ".", "t", "x", "t">>, FALSE, 3, 5, NowHours - 10)}

\* rows of three drives, one of them claimed by the rules
GroupPool ==
  {Row(1, <<"/", "D", "o", "c", "s", "/">>, <<"T", "h", "u", "m", "b", "s", ".", "d", "b">>, FALSE, 0, 0, NowHours - 10),
   Row(25, <<"/", "D", "o", "c", "s", "/">>, <<"n", "1", ".", "t", "x", "t">>, FALSE, 3, 0, NowHours - 10),
   Row(26, <<"/", "D", "o", "c", "s", "/">>, <<"n", "2", ".", "t", "x", "t">>, FALSE, 4, 0, NowHours - 10),
   Row(27, <<"/", "D", "o", "c", "s", "/">>, <<"n", "3", ".", "t", "x", "t">>, FALSE, 5, 0, NowHours - 10),
   Row(28, <<"/", "L", "i", "b", "/">>, <<"m", "1", ".", "t", "x", "t">>, FALSE, 3, 0, NowHours - 10),
   Row(30, <<"/", "H", "R", "/">>, <<"h", "1", ".", "t", "x", "t">>, FALSE, 3, 0, NowHours - 10)}

RowPools == {NamePool, DuplicatePool, ArchivePool, FolderPool, GroupPool}

\* the folder /Docs/big/ with n direct children: a folder and n - 1 files
BigFolder(n) ==
  LET digit == <<"0", "1", "2", "3", "4", "5", "6", "7", "8", "9">>
      child(i) ==
        IF i = 1
        THEN Row(101, <<"/", "D", "o", "c", "s", "/", "b", "i", "g", "/">>, <<"s", "u", "b">>, TRUE, 0, 2, NowHours - 10)
        ELSE Row(100 + i, <<"/", "D", "o", "c", "s", "/", "b", "i", "g", "/">>,
                 <<"f", digit[(i \div 10) + 1], digit[(i % 10) + 1]>> \o <<".", "t", "x", "t">>,
                 FALSE, i, 1, NowHours - 10)
  IN <<Row(100, <<"/", "D", "o", "c", "s", "/">>, <<"b", "i", "g">>, TRUE, 0, 1, NowHours - 10)>>
     \o [i \in 1..n |-> child(i)]

\* the inventories: rows of distinct identity of one pool, in any order, the
\* big folder at and just under the size Rule 12 asks for, and a claimed row
\* before three unclaimed rows of two drives
Inventories ==
  UNION {{s \in SeqsUpTo(P, MaxFiles) :
            \A i, j \in Idx(s) : i # j => s[i].id # s[j].id} : P \in RowPools}
  \cup {BigFolder(OvercrowdedMin), BigFolder(OvercrowdedMin - 1)}
  \cup {<<Row(1, <<"/", "D", "o", "c", "s", "/">>, <<"T", "h", "u", "m", "b", "s", ".", "d", "b">>, FALSE, 0, 0, NowHours - 10),
          Row(25, <<"/", "D", "o", "c", "s", "/">>, <<"n", "1", ".", "t", "x", "t">>, FALSE, 3, 0, NowHours - 10),
          Row(26, <<"/", "D", "o", "c", "s", "/">>, <<"n", "2", ".", "t", "x", "t">>, FALSE, 4, 0, NowHours - 10),
          Row(28, <<"/", "L", "i", "b", "/">>, <<"m", "1", ".", "t", "x", "t">>, FALSE, 3, 0, NowHours - 10)>>}

AnalysisLocals(status, inventory) ==
  [pc |-> "start", status |-> status, files |-> inventory, now |-> NowHours,
   suggestions |-> <<>>, rulesMatchedFileIds |-> {}, isGroqAvailable |-> FALSE,
   chunks |-> <<>>, replies |-> <<>>, uniqueSuggestions |-> <<>>,
   insertErr |-> FALSE, stored |-> <<>>, response |-> 0]

AnalysisInit ==
  /\ \E status \in {"crawled", "complete"}, inventory \in Inventories :
       analysis = AnalysisLocals(status, inventory)
  /\ CrawlIdle /\ StoreIdle /\ handler = "idle" /\ GraphIdle

\* the scan must be crawled; it is set to analyzing
LoadScan ==
  /\ analysis.pc = "start"
  /\ IF analysis.status # "crawled"
     THEN analysis' = [analysis EXCEPT !.pc = "done", !.response = 400]
     ELSE analysis' = [analysis EXCEPT !.pc = "rules", !.status = "analyzing"]

\* Phase 1
RunRulesTwice ==
  /\ analysis.pc = "rules"
  /\ LET drafts == RulesEngine(analysis.files, analysis.now)
     IN analysis' = [analysis EXCEPT !.pc = "ai", !.suggestions = drafts \o drafts,
                       !.rulesMatchedFileIds = RulesMatchedFileIds(drafts)]

RunRules ==
  /\ analysis.pc = "rules"
  /\ LET drafts == RulesEngine(analysis.files, analysis.now)
     IN analysis' = [analysis EXCEPT !.pc = "ai", !.suggestions = drafts,
                       !.rulesMatchedFileIds = RulesMatchedFileIds(drafts)]

\* Phase 2, up to the chunk loop: without an API key nothing is sent; with
\* one, the uncaught rows are grouped and packed into chunks
PrepareChunks ==
  /\ analysis.pc = "ai"
  /\ \E isGroqAvailable \in BOOLEAN :
       IF ~isGroqAvailable
       THEN analysis' = [analysis EXCEPT !.pc = "dedup"]
       ELSE LET chunks == Chunks(analysis.files, analysis.rulesMatchedFileIds)
            IN analysis' = [analysis EXCEPT !.isGroqAvailable = TRUE,
                 !.chunks = chunks,
                 !.pc = IF chunks = <<>> THEN "dedup" ELSE "chunk"]

\* one turn of the chunk loop stops the loop when the call throws
AnalyzeChunkAbortOnFailure ==
  /\ analysis.pc = "chunk"
  /\ \E reply \in Replies(analysis.files) :
       analysis' = [analysis EXCEPT
         !.replies = Append(@, reply),
         !.suggestions = @ \o Drafts(reply.suggestions,
                                     LAMBDA s : AIDraft(analysis.files, s)),
         !.pc = IF Len(analysis.replies) + 1 = Len(analysis.chunks) \/ ~reply.ok
                THEN "dedup" ELSE "chunk"]

\* one turn of the chunk loop: the next chunk is sent; the call throws, which
\* is caught and logged, or returns suggestions, which are pushed
AnalyzeChunk ==
  /\ analysis.pc = "chunk"
  /\ \E reply \in Replies(analysis.files) :
       analysis' = [analysis EXCEPT
         !.replies = Append(@, reply),
         !.suggestions = @ \o Drafts(reply.suggestions,
                                     LAMBDA s : AIDraft(analysis.files, s)),
         !.pc = IF Len(analysis.replies) + 1 = Len(analysis.chunks)
                THEN "dedup" ELSE "chunk"]

\* Phase 3: dedup, insert (a failed insert is only logged), status complete
DedupAndStore ==
  /\ analysis.pc = "dedup"
  /\ \E insertErr \in BOOLEAN :
       analysis' = [analysis EXCEPT !.pc = "done", !.status = "complete",
         !.response = 200,
         !.uniqueSuggestions = UniqueSuggestions(analysis.suggestions),
         !.insertErr = insertErr,
         !.stored = IF insertErr THEN @ ELSE UniqueSuggestions(analysis.suggestions)]

AnalysisNext ==
  /\ UNCHANGED <<crawlVars, storeVars, handler, graphVars>>
  /\ \/ LoadScan \/ RunRules \/ PrepareChunks \/ AnalyzeChunk \/ DedupAndStore

AnalysisSpec == AnalysisInit /\ [][AnalysisNext]_vars

NoDuplicateKey(s) == \A i, j \in Idx(s) : i # j => Key(s[i]) # Key(s[j])

\* C20: rules dedup law: when Phase 1 has run, its drafts hold no two
\* suggestions with the same key (item id or path, category, title), and
\* deduplicating them followed by the drafts of a second run of the rules
\* on the same inventory gives what deduplicating them alone gives.
C20_RulesDedupLaw ==
  analysis.pc = "ai"
    => /\ NoDuplicateKey(analysis.suggestions)
       /\ UniqueSuggestions(analysis.suggestions
                            \o RulesEngine(analysis.files, analysis.now))
            = UniqueSuggestions(analysis.suggestions)
       /\ UniqueSuggestions(analysis.suggestions) = analysis.suggestions

\* the rules have run on an inventory where one item got drafts of two rules
\* and another the draft of the duplicate rule
C20_Witness ==
  /\ analysis.pc = "ai"
  /\ \E i, j \in Idx(analysis.suggestions) :
       /\ analysis.suggestions[i].file_id = analysis.suggestions[j].file_id
       /\ analysis.suggestions[i].title # analysis.suggestions[j].title
  /\ \E k \in Idx(analysis.suggestions) :
       analysis.suggestions[k].title = <<"D", "u", "p", "l", "i", "c", "a", "t", "e", " ", "f", "i", "l", "e">>

\* the drafts of a title that the row at position i of the inventory got
DraftsOf(i, title) ==
  {k \in Idx(analysis.suggestions) :
     /\ analysis.suggestions[k].file_id = analysis.files[i].id
     /\ analysis.suggestions[k].title = title}

\* the files sharing lowercased name and size with the file at position i
DuplicateGroup(i) ==
  {j \in Idx(analysis.files) :
     /\ ~analysis.files[j].is_folder
     /\ Lower(analysis.files[j].name) = Lower(analysis.files[i].name)
     /\ analysis.files[j].size_bytes = analysis.files[i].size_bytes}

\* C21: Rule 8: when the rules have run, in every group of two or more files
\* of equal lowercased name and size one member has no `Duplicate file`
\* draft and no member was modified later than it; every other member has
\* exactly one, delete/high/0.85, naming the retained member's path; a file
\* alone in its group has none.
C21_DuplicatesKeepNewest ==
  analysis.pc = "ai"
    => \A i \in Idx(analysis.files) :
         ~analysis.files[i].is_folder
           => IF Cardinality(DuplicateGroup(i)) = 1
              THEN DraftsOf(i, <<"D", "u", "p", "l", "i", "c", "a", "t", "e", " ", "f", "i", "l", "e">>) = {}
              ELSE \E r \in DuplicateGroup(i) :
                     /\ DraftsOf(r, <<"D", "u", "p", "l", "i", "c", "a", "t", "e", " ", "f", "i", "l", "e">>) = {}
                     /\ \A j \in DuplicateGroup(i) :
                          analysis.files[j].modified_at_sp
                            <= analysis.files[r].modified_at_sp
                     /\ \A j \in DuplicateGroup(i) \ {r} :
                          /\ Cardinality(DraftsOf(j, <<"D", "u", "p", "l", "i", "c", "a", "t", "e", " ", "f", "i", "l", "e">>)) = 1
                          /\ \A k \in DraftsOf(j, <<"D", "u", "p", "l", "i", "c", "a", "t", "e", " ", "f", "i", "l", "e">>) :
                               /\ analysis.suggestions[k].category = "delete"
                               /\ analysis.suggestions[k].severity = "high"
                               /\ analysis.suggestions[k].confidence = 85
                               /\ analysis.suggestions[k].description
                                    = analysis.files[r].path

\* the rules have run on three copies, one of them without a modification
\* time and none of them the first row's equal in time: two drafts name the
\* newest copy
C21_Witness ==
  /\ analysis.pc = "ai"
  /\ Len(analysis.files) = 3
  /\ Cardinality(DuplicateGroup(1)) = 3
  /\ \E i \in Idx(analysis.files) : analysis.files[i].modified_at_sp = 0
  /\ \E r \in 2..3 :
       /\ DraftsOf(r, <<"D", "u", "p", "l", "i", "c", "a", "t", "e", " ", "f", "i", "l", "e">>) = {}
       /\ \A j \in {1, 2, 3} \ {r} :
            \E k \in DraftsOf(j, <<"D", "u", "p", "l", "i", "c", "a", "t", "e", " ", "f", "i", "l", "e">>) :
              analysis.suggestions[k].description = analysis.files[r].path

\* the rows that lie directly in the folder at position i of the inventory
DirectChildren(i) ==
  {j \in Idx(analysis.files) :
     analysis.files[j].path
       = analysis.files[i].path \o analysis.files[j].name
         \o (IF analysis.files[j].is_folder THEN <<"/">> ELSE <<>>)}

DirectFileChildren(i) ==
  {j \in DirectChildren(i) : ~analysis.files[j].is_folder}

\* the row at position i has exactly one draft of the title, and it is of the
\* category, severity and confidence
HasOneDraft(i, title, category, severity, confidence) ==
  /\ Cardinality(DraftsOf(i, title)) = 1
  /\ \A k \in DraftsOf(i, title) :
       /\ analysis.suggestions[k].category = category
       /\ analysis.suggestions[k].severity = severity
       /\ analysis.suggestions[k].confidence = confidence

\* C22: Rule 11: when the rules have run, every folder with 1 or 2 direct
\* file children and depth > 1 has a structure/medium/0.7 `Sparse folder`
\* draft, and no other folder has one.
C22_SparseFolders ==
  analysis.pc = "ai"
    => \A i \in Idx(analysis.files) :
         analysis.files[i].is_folder
           => IF /\ Cardinality(DirectFileChildren(i)) \in {1, 2}
                 /\ analysis.files[i].depth > 1
              THEN HasOneDraft(i, <<"S", "p", "a", "r", "s", "e", " ", "f", "o", "l", "d", "e", "r">>, "structure", "medium", 70)
              ELSE DraftsOf(i, <<"S", "p", "a", "r", "s", "e", " ", "f", "o", "l", "d", "e", "r">>) = {}

\* C23: Rule 12: when the rules have run, every folder with 50 or more direct
\* children, files and folders together, has a structure/medium/0.75
\* `Overcrowded folder` draft, and no folder with fewer has one.
C23_OvercrowdedFolders ==
  analysis.pc = "ai"
    => \A i \in Idx(analysis.files) :
         analysis.files[i].is_folder
           => IF Cardinality(DirectChildren(i)) >= 50
              THEN HasOneDraft(i, <<"O", "v", "e", "r", "c", "r", "o", "w", "d", "e", "d", " ", "f", "o", "l", "d", "e", "r">>, "structure", "medium", 75)
              ELSE DraftsOf(i, <<"O", "v", "e", "r", "c", "r", "o", "w", "d", "e", "d", " ", "f", "o", "l", "d", "e", "r">>) = {}

\* the folders beside the archive at position i that bear its base name
SiblingFoldersOfBaseName(i) ==
  {j \in Idx(analysis.files) :
     /\ analysis.files[j].is_folder
     /\ Lower(analysis.files[j].name) = Lower(ZipBaseName(analysis.files[i].name))
     /\ analysis.files[j].path
          = SubSeq(analysis.files[i].path, 1,
                   Len(analysis.files[i].path) - Len(analysis.files[i].name))
            \o analysis.files[j].name \o <<"/">>}

\* C24: Rule 9: when the rules have run, an archive file has an `Archive
\* with extracted contents` draft if and only if a folder of its base name,
\* compared without case, lies directly in the archive's own directory.
C24_ArchiveNeedsSiblingFolder ==
  analysis.pc = "ai"
    => \A i \in Idx(analysis.files) :
         ~analysis.files[i].is_folder /\ ArchivePattern(analysis.files[i].name)
           => (DraftsOf(i, <<"A", "r", "c", "h", "i", "v", "e", " ", "w", "i", "t", "h", " ", "e", "x", "t", "r", "a", "c", "t", "e", "d", " ", "c", "o", "n", "t", "e", "n", "t", "s">>) # {}
                 <=> SiblingFoldersOfBaseName(i) # {})

\* C26: when the rules have run, every folder of depth > 4 has a
\* structure/high `Deeply nested folder` draft, whatever its children, and a
\* folder without file children has no `Sparse folder` draft.
C26_DeepFoldersFlagged ==
  analysis.pc = "ai"
    => \A i \in Idx(analysis.files) :
         analysis.files[i].is_folder
           => /\ analysis.files[i].depth > 4
                   => HasOneDraft(i, <<"D", "e", "e", "p", "l", "y", " ", "n", "e", "s", "t", "e", "d", " ", "f", "o", "l", "d", "e", "r">>, "structure", "high", 80)
              /\ DirectFileChildren(i) = {}
                   => DraftsOf(i, <<"S", "p", "a", "r", "s", "e", " ", "f", "o", "l", "d", "e", "r">>) = {}

\* the rules have run on a folder of depth 5 with a file in it and a folder
\* of depth 2 without files: the first has the draft, the second no
\* `Sparse folder` draft
C26_Witness ==
  /\ analysis.pc = "ai"
  /\ \E i \in Idx(analysis.files) :
       /\ analysis.files[i].is_folder /\ analysis.files[i].depth = 5
       /\ DirectFileChildren(i) # {}
       /\ DraftsOf(i, <<"D", "e", "e", "p", "l", "y", " ", "n", "e", "s", "t", "e", "d", " ", "f", "o", "l", "d", "e", "r">>) # {}
  /\ \E i \in Idx(analysis.files) :
       /\ analysis.files[i].is_folder /\ analysis.files[i].depth = 2
       /\ DirectFileChildren(i) = {}
       /\ DraftsOf(i, <<"S", "p", "a", "r", "s", "e", " ", "f", "o", "l", "d", "e", "r">>) = {}

\* two drafts have the same composite key: the item id, or the path when the
\* item id is null, then category and title
SameKey(a, b) ==
  /\ IF a.file_id # 0 \/ b.file_id # 0 THEN a.file_id = b.file_id
     ELSE a.current_value = b.current_value
  /\ a.category = b.category
  /\ a.title = b.title

\* C25: when the analysis has ended, every draft of the rules has exactly one
\* row of its item, category and title among the deduplicated suggestions,
\* which are the rows stored when the insert succeeds: an item matched by two
\* rules keeps one suggestion per rule.
C25_OneSuggestionPerRule ==
  analysis.pc = "done" /\ analysis.response = 200
    => /\ LET rules == RulesEngine(analysis.files, analysis.now)
          IN \A k \in Idx(rules) :
               Cardinality({u \in Idx(analysis.uniqueSuggestions) :
                 SameKey(analysis.uniqueSuggestions[u], rules[k])}) = 1
       /\ ~analysis.insertErr => analysis.stored = analysis.uniqueSuggestions

\* the analysis has ended and a 0-byte file of a system name has two stored
\* rows: `Empty file` delete/high and `Temporary file` delete/critical
C25_Witness ==
  /\ analysis.pc = "done" /\ ~analysis.insertErr
  /\ \E i \in Idx(analysis.files), u, v \in Idx(analysis.stored) :
       /\ analysis.files[i].size_bytes = 0
       /\ analysis.stored[u].file_id = analysis.files[i].id
       /\ analysis.stored[v].file_id = analysis.files[i].id
       /\ analysis.stored[u].title = <<"E", "m", "p", "t", "y", " ", "f", "i", "l", "e">>
       /\ analysis.stored[u].category = "delete"
       /\ analysis.stored[u].severity = "high"
       /\ analysis.stored[v].title = <<"T", "e", "m", "p", "o", "r", "a", "r", "y", " ", "f", "i", "l", "e">>
       /\ analysis.stored[v].category = "delete"
       /\ analysis.stored[v].severity = "critical"

\* the positions (chunk, place) of the chunk items of the path
ChunkPlaces(path) ==
  {<<c, k>> \in Idx(analysis.chunks) \X (1..Len(analysis.files)) :
     k <= Len(analysis.chunks[c]) /\ analysis.chunks[c][k].path = path}

\* the chunks are built and nothing is sent yet
ChunksBuilt == analysis.isGroqAvailable /\ analysis.replies = <<>>

\* C27: once the chunks are built, the claimed set is the set of the ids
\* with a rules suggestion, a claimed item is in no chunk, an unclaimed item
\* is in exactly one place of one chunk, and every chunk item is an unclaimed
\* item of the inventory.
C27_ChunksHoldTheUnclaimed ==
  ChunksBuilt
    => /\ analysis.rulesMatchedFileIds
            = {analysis.suggestions[k].file_id : k \in Idx(analysis.suggestions)}
       /\ \A i \in Idx(analysis.files) :
            Cardinality(ChunkPlaces(analysis.files[i].path))
              = IF analysis.files[i].id \in analysis.rulesMatchedFileIds
                THEN 0 ELSE 1
       /\ \A c \in Idx(analysis.chunks) : \A k \in Idx(analysis.chunks[c]) :
            \E i \in Idx(analysis.files) :
              /\ analysis.files[i].path = analysis.chunks[c][k].path
              /\ analysis.files[i].id \notin analysis.rulesMatchedFileIds

\* the chunks are built of an inventory with a claimed and an unclaimed item
C27_Witness ==
  /\ ChunksBuilt /\ analysis.chunks # <<>>
  /\ \E i, j \in Idx(analysis.files) :
       /\ analysis.files[i].id \in analysis.rulesMatchedFileIds
       /\ analysis.files[j].id \notin analysis.rulesMatchedFileIds
       /\ ChunkPlaces(analysis.files[i].path) = {}
       /\ ChunkPlaces(analysis.files[j].path) # {}

\* the place among the unclaimed rows where the top-level group of the path
\* first shows
GroupOrder(path) ==
  LET of == {i \in Idx(analysis.files) :
               /\ analysis.files[i].id \notin analysis.rulesMatchedFileIds
               /\ TopFolder(analysis.files[i].path) = TopFolder(path)}
  IN CHOOSE i \in of : \A j \in of : i <= j

\* C28: once the chunks are built, no chunk is empty, the items of one
\* top-level group are in one chunk, the groups follow each other through the
\* chunks in the order of their first members, and a chunk of more items
\* than the bound holds a single group.
C28_ChunksKeepGroups ==
  ChunksBuilt
    => /\ \A c \in Idx(analysis.chunks) : analysis.chunks[c] # <<>>
       /\ \A c, d \in Idx(analysis.chunks) :
            \A k \in Idx(analysis.chunks[c]), m \in Idx(analysis.chunks[d]) :
              /\ TopFolder(analysis.chunks[c][k].path)
                   = TopFolder(analysis.chunks[d][m].path) => c = d
              /\ c < d \/ (c = d /\ k < m)
                   => GroupOrder(analysis.chunks[c][k].path)
                        <= GroupOrder(analysis.chunks[d][m].path)
       /\ \A c \in Idx(analysis.chunks) :
            Len(analysis.chunks[c]) > AnalyzeBatchSize
              => \A k, m \in Idx(analysis.chunks[c]) :
                   TopFolder(analysis.chunks[c][k].path)
                     = TopFolder(analysis.chunks[c][m].path)

\* the chunks are built, there are two of them, and one holds two items of
\* one group
C28_Witness ==
  /\ ChunksBuilt /\ Len(analysis.chunks) >= 2
  /\ \E c \in Idx(analysis.chunks) :
       /\ Len(analysis.chunks[c]) = 2
       /\ TopFolder(analysis.chunks[c][1].path) = TopFolder(analysis.chunks[c][2].path)

\* a row of the key of the draft is stored
IsStored(draft) ==
  \E u \in Idx(analysis.stored) : SameKey(analysis.stored[u], draft)

\* C29: when an analysis with the classifier has ended, every chunk was
\* sent, whichever calls failed, and the scan is complete; when the insert
\* succeeded, every rules suggestion and every suggestion of a successful
\* call has its row stored.
C29_ChunkFailuresAreSkipped ==
  analysis.pc = "done" /\ analysis.response = 200
    => /\ analysis.isGroqAvailable => Len(analysis.replies) = Len(analysis.chunks)
       /\ analysis.status = "complete"
       /\ ~analysis.insertErr
            => /\ LET rules == RulesEngine(analysis.files, analysis.now)
                  IN \A k \in Idx(rules) : IsStored(rules[k])
               /\ \A r \in Idx(analysis.replies) :
                    \A n \in Idx(analysis.replies[r].suggestions) :
                      IsStored(AIDraft(analysis.files,
                                       analysis.replies[r].suggestions[n]))

\* an analysis has ended whose first call failed and whose second call
\* returned a suggestion, which is stored beside a rules suggestion
C29_Witness ==
  /\ analysis.pc = "done" /\ ~analysis.insertErr /\ analysis.status = "complete"
  /\ Len(analysis.replies) >= 2
  /\ ~analysis.replies[1].ok
  /\ analysis.replies[2].ok /\ analysis.replies[2].suggestions # <<>>
  /\ IsStored(AIDraft(analysis.files, analysis.replies[2].suggestions[1]))
  /\ RulesEngine(analysis.files, analysis.now) # <<>>

\* the places of the drafts that no earlier draft shares its key with
FirstOfKey ==
  {k \in Idx(analysis.suggestions) :
     \A j \in 1..(k - 1) :
       ~SameKey(analysis.suggestions[j], analysis.suggestions[k])}

\* C30: when the analysis has ended, the deduplicated suggestions are the
\* drafts that are the first of their composite key, in draft order; a rules
\* draft is therefore kept against a classifier draft of its key.
C30_DedupKeepsFirst ==
  analysis.pc = "done" /\ analysis.response = 200
    => /\ Len(analysis.uniqueSuggestions) = Cardinality(FirstOfKey)
       /\ \A n \in Idx(analysis.uniqueSuggestions) :
            \E k \in FirstOfKey :
              /\ Cardinality({j \in FirstOfKey : j <= k}) = n
              /\ analysis.uniqueSuggestions[n] = analysis.suggestions[k]

\* the analysis has ended, the classifier named an item with the key of a
\* rules draft of another severity, and the rules draft is the one kept
C30_Witness ==
  /\ analysis.pc = "done"
  /\ \E k, j \in Idx(analysis.suggestions) :
       /\ k < j
       /\ SameKey(analysis.suggestions[k], analysis.suggestions[j])
       /\ analysis.suggestions[k].file_id # 0
       /\ analysis.suggestions[k].severity = "high"
       /\ analysis.suggestions[j].severity = "low"
       /\ \E u \in Idx(analysis.uniqueSuggestions) :
            analysis.uniqueSuggestions[u] = analysis.suggestions[k]
       /\ \A u \in Idx(analysis.uniqueSuggestions) :
            analysis.uniqueSuggestions[u] # analysis.suggestions[j]

\* C34: a stale pass returns to `pending` only rows that have been
\* `processing` for longer than the staleness window, whatever their creation
\* time.
C34_ReclaimOnlyStale ==
  [][\A i \in Idx(queue) :
       queue[i].status = "processing" /\ queue'[i].status = "pending"
         => clock - queue[i].claimed > StaleWindow]_vars

\* ---------------------------------------------------------------------
\* resolveRoot: what parseSharePointUrl returns
\* the path the resolution reads: the id parameter when present, else the
\* names of the pathname
ResolvedPath(url) ==
  IF url.id # <<>> THEN [segs |-> url.id, trailing |-> FALSE]
  ELSE [segs |-> IF DecodeThrows(url.pathname) THEN url.pathname
                 ELSE DecodedParts(url.pathname),
        trailing |-> url.trailing]

\* a path without its trailing Forms/<page>.aspx, if it ends in one
WithoutViewPage(path) ==
  LET n == Len(path.segs)
  IN IF n >= 2 /\ ~path.trailing /\ path.segs[n - 1] = "Forms"
        /\ path.segs[n] = "AllItems.aspx"
     THEN [segs |-> SubSeq(path.segs, 1, n - 2), trailing |-> FALSE]
     ELSE path

\* the segments left once the trailing view page is gone, the list view and
\* the page under it when both end the path
ResolvedParts(url) == WithoutViewPage(WithoutViewPage(ResolvedPath(url))).segs

\* positions of a sites/teams segment that a site name follows
SitePositions(parts) ==
  {i \in Idx(parts) : parts[i] \in {"sites", "teams"} /\ i < Len(parts)}

\* parts.join('/')
RECURSIVE Joined(_)
Joined(parts) ==
  IF Len(parts) <= 1 THEN parts
  ELSE <<Head(parts), "/">> \o Joined(Tail(parts))

\* the parse step of the handler ends as resolveRoot is described, the
\* library path being render(remaining segments) and the resolution failing
\* exactly when `fails`
ResolvesAs(render(_), fails(_)) ==
  handler.pc = "parse" /\ handler.sharepoint_url.url.wellFormed
    => LET url == handler.sharepoint_url.url
           parts == ResolvedParts(url)
           found == SitePositions(parts)
       IN IF fails(url)
          THEN handler'.pc = "responded" /\ handler'.response = 500
          ELSE LET i == CHOOSE k \in found : \A j \in found : k <= j
                   rest == SubSeq(parts, i + 2, Len(parts))
               IN /\ handler'.pc = "insert"
                  /\ handler'.parsed.sitePath = <<"/", parts[i], "/", parts[i + 1]>>
                  /\ handler'.parsed.libraryPath =
                       (IF rest = <<>> THEN <<>> ELSE render(rest))

\* no sites/teams segment is followed by a site name
NoSiteSegment(url) == SitePositions(ResolvedParts(url)) = {}

\* the same, or a pathname that is read and cannot be percent-decoded
NoSiteOrUndecodable(url) ==
  \/ NoSiteSegment(url)
  \/ url.id = <<>> /\ DecodeThrows(url.pathname)

\* C39: resolveRoot takes the path from the id parameter when present, else
\* from the pathname, strips a trailing view page, and returns sitePath "/" +
\* the first sites/teams segment + "/" + the next segment and libraryPath the
\* remaining segments joined with "/" (null when none); it fails exactly
\* when the path has no sites/teams segment followed by a site name.
C39_ResolveRootAsStated == [][ResolvesAs(Joined, NoSiteSegment)]_vars

\* C39, amended: as above, but libraryPath is "/" followed by the remaining
\* segments joined with "/" (null when none), and the resolution also fails
\* when the path comes from the pathname and the pathname cannot be
\* percent-decoded.
C39_ResolveRoot == [][ResolvesAs(SlashJoined, NoSiteOrUndecodable)]_vars

\* a request whose id parameter names a library view has been resolved to the
\* site and the library
C39_Witness ==
  /\ handler.pc = "insert"
  /\ handler.sharepoint_url.url.id = <<"sites", "MySite", "Docs", "Forms", "AllItems.aspx">>
  /\ handler.sharepoint_url.url.pathname = <<"%zz">>
  /\ handler.parsed.sitePath = <<"/", "sites", "/", "MySite">>
  /\ handler.parsed.libraryPath = <<"/", "Docs">>

\* ---------------------------------------------------------------------
\* continue-crawl against a queue that is being seeded
\* positions inside finalizeCrawl
FinalizePcs == {"fin_done", "fin_err", "fin_errmsg", "fin_write_err",
                "fin_files", "fin_write"}

\* a root row is still `pending`
RootPending == \E i \in Idx(queue) : queue[i].depth = 0 /\ queue[i].status = "pending"

\* C38: a poll that finds no queue row for a crawling scan returns done=false
\* and leaves the scan as it is, and no poll runs finalizeCrawl after an empty
\* select while a root row is `pending`, even when the seeding insert lands
\* between the poll's pending select and its count of all rows.
C38_PollWaitsForSeeding ==
  /\ [][\A p \in Polls :
          At(p, "count_total") /\ queue = <<>> /\ ~At(p, "count_total")'
            => scan' = scan /\ proc'[p] = Locals("idle")]_vars
  /\ [](\A p \in Polls :
          proc[p].pc \in FinalizePcs /\ proc[p].items = <<>> => ~RootPending)

\* ---------------------------------------------------------------------
\* the order of expansion
\* rows of q in `pending`
PendingRows(q) == {i \in Idx(q) : q[i].status = "pending"}

\* row i comes strictly before row j in (depth, creation) order
StrictlyEarlier(q, i, j) ==
  \/ q[i].depth < q[j].depth
  \/ q[i].depth = q[j].depth /\ q[i].created < q[j].created

\* the rows named by a batch
BatchRows(items) == {items[j] : j \in Idx(items)}

\* C35: the batch a processBatch call selects is at most BATCH_SIZE rows, all
\* of them pending and none before them in (depth, creation) order left
\* behind, so no pending row of smaller depth stays unselected; the batch stays
\* as selected while it runs, the rows inserted meanwhile are not in it, and
\* only rows of the batch are expanded, so a subfolder discovered during a
\* batch is not expanded in that batch.
C35_BatchIsShallowestFirst ==
  /\ [][\A p \in Procs :
          At(p, "fetch") /\ ~At(p, "fetch")'
            => LET sel == proc'[p].items
                   pend == PendingRows(queue)
               IN /\ Len(sel) = Min(BATCH_SIZE, Cardinality(pend))
                  /\ BatchRows(sel) \subseteq pend
                  /\ Cardinality(BatchRows(sel)) = Len(sel)
                  /\ \A i \in pend \ BatchRows(sel) : \A j \in BatchRows(sel) :
                       /\ ~StrictlyEarlier(queue, i, j)
                       /\ queue[i].depth >= queue[j].depth
                  /\ \A j, k \in Idx(sel) :
                       j < k => ~StrictlyEarlier(queue, sel[k], sel[j])]_vars
  /\ [][\A p \in Procs :
          proc[p].pc \in BatchPcs \cup {"mark"}
            => /\ proc'[p].pc \in BatchPcs \cup {"mark"}
                    => proc'[p].items = proc[p].items
               /\ \A i \in Idx(queue') \ Idx(queue) :
                    i \notin BatchRows(proc[p].items)]_vars
  /\ [][\A p \in Procs : \A i \in Idx(queue) :
          At(p, "expand") /\ ~At(p, "expand")' /\ queue'[i].exp > queue[i].exp
            => i \in BatchRows(proc[p].items)]_vars

\* a batch has taken the last folder of depth 1 and the first of depth 2 and
\* left the second folder of depth 2 pending
C35_Witness ==
  \E p \in Polls :
    /\ At(p, "mark") /\ Len(proc[p].items) = BATCH_SIZE
    /\ \E i, j \in BatchRows(proc[p].items) : queue[i].depth < queue[j].depth
    /\ \E i \in PendingRows(queue) \ BatchRows(proc[p].items) : queue[i].depth = 2

\* C36: with one invocation at a time and no row ever reset by the stale
\* pass, rows are expanded in non-decreasing depth order over the whole
\* crawl.
C36_ExpansionDepthNonDecreasing ==
  [][\A i \in Idx(queue) :
       /\ queue'[i].exp > queue[i].exp
       /\ \A j \in Idx(queue) : queue[j].rec = 0
       => \A j \in Idx(queue) : queue[j].exp > 0 => queue[j].depth <= queue[i].depth]_vars

\* rows of depth 0, 1 and 2 have been expanded, the two of depth 2 after a
\* batch that mixed depths
C36_Witness ==
  /\ \A j \in Idx(queue) : queue[j].rec = 0
  /\ \A d \in 0..2 : \E i \in Idx(queue) : queue[i].depth = d /\ queue[i].exp > 0
  /\ Cardinality({i \in Idx(queue) : queue[i].depth = 2 /\ queue[i].exp > 0}) = 2
  /\ Cardinality({i \in Idx(queue) : queue[i].depth = 1 /\ queue[i].exp > 0}) = 3

\* ---------------------------------------------------------------------
\* processFolder when the store rejects a batch insert
\* the crawled_files insert returns an error: it is logged and processFolder
\* goes on to the crawl_queue insert
InsertFilesRejected(p) ==
  /\ At(p, "ins_files")
  /\ Goto(p, IF \E j \in Idx(proc[p].kids) : IsFolder(proc[p].kids[j])
             THEN "ins_queue" ELSE "mark_done")
  /\ UNCHANGED <<scan, queue, files, clock, tree, crashes, auxVars>>

\* the crawl_queue insert returns an error: it is logged and processFolder
\* returns its counts
InsertQueueRejected(p) ==
  /\ At(p, "ins_queue")
  /\ Goto(p, "mark_done")
  /\ UNCHANGED <<scan, queue, files, clock, tree, crashes, auxVars>>

FaultNext ==
  \/ \E p \in Procs : DriverStep(p)
  \/ \E p \in Procs : InsertFilesRejected(p)
  \/ \E p \in Procs : InsertQueueRejected(p)

\* a single sequential driver over a store that may reject a batch insert
FaultSpec == SeqInit /\ [][FaultNext]_vars

\* inventory rows with the given path, depth and kind
InventoryCount(fs, path, depth, folder) ==
  LET rows == {r \in BagToSet(fs) :
                 r.path = path /\ r.depth = depth /\ r.is_folder = folder}
  IN SumOver(rows, [r \in rows |-> fs[r]])

\* queue rows from position n on with the given path and depth, all pending
NewQueueCount(q, n, path, depth) ==
  Cardinality({i \in n..Len(q) : q[i].folder_path = path /\ q[i].depth = depth
                                   /\ q[i].status = "pending"})

\* path of a child: the parent's accumulated path, the name, and "/" for a folder
ChildPath(parentPath, c) ==
  parentPath \o <<NameOf(c)>> \o (IF c \in FolderIds THEN <<"/">> ELSE <<>>)

\* every non-root queue row has a folder inventory row of its path and depth
QueueRowsAreInventoried ==
  \A i \in Idx(queue) :
    queue[i].depth > 0
      => InventoryCount(files, queue[i].folder_path, queue[i].depth, TRUE) > 0

\* C37: expanding the queue row (P, d) adds one inventory row per child,
\* with path P + name (+ "/" for a folder) and depth d for a file, d + 1 for
\* a folder, and one new pending queue row of the same path and depth d + 1
\* per folder child; so every non-root queue row has a folder inventory row
\* of equal path and depth in every reachable state.
C37_ExpansionRows ==
  /\ [][\A p \in Procs :
          At(p, "ins_files") /\ ~At(p, "ins_files")' /\ proc'[p].pc \in LoopPcs
            => LET row == queue[Current(p)]
                   kids == proc[p].kids
               IN \A n \in Idx(kids) :
                    LET c == kids[n]
                        path == ChildPath(row.folder_path, c)
                        depth == IF c \in FolderIds THEN row.depth + 1 ELSE row.depth
                    IN InventoryCount(files', path, depth, c \in FolderIds)
                         = InventoryCount(files, path, depth, c \in FolderIds) + 1]_vars
  /\ [][\A p \in Procs :
          At(p, "ins_queue") /\ ~At(p, "ins_queue")' /\ proc'[p].pc \in LoopPcs
            => LET row == queue[Current(p)]
                   kids == proc[p].kids
               IN /\ SubSeq(queue', 1, Len(queue)) = queue
                  /\ Len(queue') = Len(queue)
                       + Cardinality({n \in Idx(kids) : kids[n] \in FolderIds})
                  /\ \A n \in Idx(kids) :
                       kids[n] \in FolderIds
                         => NewQueueCount(queue', Len(queue) + 1,
                                          ChildPath(row.folder_path, kids[n]),
                                          row.depth + 1) = 1]_vars
  /\ []QueueRowsAreInventoried

\* ---------------------------------------------------------------------
\* requests keyed by scan id: continue-crawl, crawl-status and analyze
\* the users of the deployment; verifyAuth returns one of them or throws
Users == {"u1", "u2"}
NoUser == "none"
\* scan_id of a body that has none
NoScan == "none"

\* a scans row with its owner
OwnedScan(owner, status, nfiles) ==
  [user_id |-> owner, status |-> status,
   crawl_progress |-> IF status = "crawling" THEN 0 ELSE ProgressFinal,
   total_files |-> nfiles, total_folders |-> 0, total_size_bytes |-> 0,
   error_message |-> "none"]

\* the inventory of a scan that has been crawled before the requests: one
\* empty file
CrawledBefore(s) ==
  [scan_id |-> s, folder |-> 0, is_folder |-> FALSE, size_bytes |-> 0]

\* a crawled_files row as the rules engine reads it
InventoryRow(r) ==
  Row(2 * r.folder + (IF r.is_folder THEN 2 ELSE 1), <<"/", "D", "/">>,
      IF r.is_folder THEN <<"s", "u", "b">> ELSE <<"n", ".", "t", "x", "t">>,
      r.is_folder, r.size_bytes, 0, NowHours - 10)

\* select('*').eq('scan_id', s) on crawled_files, in id order
RECURSIVE InventoryOf(_)
InventoryOf(rows) ==
  IF rows = {} THEN <<>>
  ELSE LET r == CHOOSE x \in rows :
                  \A y \in rows : InventoryRow(x).id <= InventoryRow(y).id
       IN <<InventoryRow(r)>> \o InventoryOf(rows \ {r})

\* the analyze calls in flight
Calls == {"x", "y"}

\* locals of an analyze call: the caller verifyAuth finds, the scan_id of the
\* body, whether the body stream has been read, the thrown message
CallLocals(user, scan_id) ==
  [pc |-> "auth", caller |-> user, scan_id |-> scan_id, userId |-> NoUser,
   bodyUsed |-> FALSE, uniqueSuggestions |-> <<>>, err |-> "none", response |-> 0]

\* locals of a continue-crawl or crawl-status request; view is the scan data
\* of the response
PollLocals(endpoint, user, scan_id) ==
  [endpoint |-> endpoint, pc |-> "auth", caller |-> user, scan_id |-> scan_id,
   userId |-> NoUser, response |-> 0, view |-> "none"]

RequestInit ==
  /\ \E sa \in {"crawling", "crawled"}, sb \in {"crawled", "complete"} :
       /\ scans = [s \in ScanIds |->
                     IF s = "A" THEN OwnedScan("u1", sa, IF sa = "crawling" THEN 0 ELSE 1)
                     ELSE OwnedScan("u2", sb, 1)]
       /\ crawl_queue = IF sa = "crawling" THEN <<StoreRow("A", 0)>>
                        ELSE <<[StoreRow("A", 0) EXCEPT !.status = "done"]>>
       /\ crawled_files = {CrawledBefore(s) : s \in IF sa = "crawling" THEN {"B"} ELSE ScanIds}
  /\ worker = [s \in ScanIds |-> [items |-> <<>>, add |-> <<0, 0, 0>>]]
  /\ op = "none"
  /\ \E u \in Users \cup {NoUser}, s \in ScanIds \cup {NoScan} :
       analysis = [calls |-> [c \in Calls |->
                                IF c = "x" THEN CallLocals(u, s)
                                ELSE CallLocals("u1", "A")],
                   stored |-> <<>>]
  /\ \E e \in {"continue-crawl", "crawl-status"}, u \in Users \cup {NoUser},
        s \in ScanIds \cup {NoScan} :
       handler = PollLocals(e, u, s)
  /\ CrawlIdle /\ GraphIdle

Call(c) == analysis.calls[c]

\* the call returns a response
Return(c, status) ==
  analysis' = [analysis EXCEPT !.calls[c].pc = "returned",
                               !.calls[c].response = status]

\* ------------------------------------------------------------- analyze
\* verifyAuth: the caller's user id, or a throw
AnalyzeAuth(c) ==
  /\ Call(c).pc = "auth"
  /\ IF Call(c).caller = NoUser
     THEN analysis' = [analysis EXCEPT !.calls[c].pc = "catch",
                                       !.calls[c].err = "Invalid or expired token"]
     ELSE analysis' = [analysis EXCEPT !.calls[c].pc = "body",
                                       !.calls[c].userId = Call(c).caller]
  /\ UNCHANGED <<storeVars, handler>>

\* req.json() and the scan_id check
AnalyzeBody(c) ==
  /\ Call(c).pc = "body"
  /\ IF Call(c).scan_id = NoScan
     THEN analysis' = [analysis EXCEPT !.calls[c].pc = "returned",
                                       !.calls[c].response = 400,
                                       !.calls[c].bodyUsed = TRUE]
     ELSE analysis' = [analysis EXCEPT !.calls[c].pc = "lookup",
                                       !.calls[c].bodyUsed = TRUE]
  /\ UNCHANGED <<storeVars, handler>>

\* the scan of that id and that user, which must be crawled
AnalyzeLookup(c) ==
  /\ Call(c).pc = "lookup"
  /\ LET scan_id == Call(c).scan_id
     IN IF scans[scan_id].user_id # Call(c).userId THEN Return(c, 404)
        ELSE IF scans[scan_id].status # "crawled" THEN Return(c, 400)
        ELSE analysis' = [analysis EXCEPT !.calls[c].pc = "set_analyzing"]
  /\ UNCHANGED <<storeVars, handler>>

\* update({status: 'analyzing'}).eq('id', scan_id)
SetAnalyzing(c) ==
  /\ Call(c).pc = "set_analyzing"
  /\ scans' = [scans EXCEPT ![Call(c).scan_id].status = "analyzing"]
  /\ analysis' = [analysis EXCEPT !.calls[c].pc = "read_files"]
  /\ UNCHANGED <<crawl_queue, crawled_files, worker, op, handler>>

\* the inventory read, which throws when the store returns an error; then
\* the rules and the dedup over what was read
ReadFiles(c) ==
  /\ Call(c).pc = "read_files"
  /\ \E filesErr \in BOOLEAN :
       IF filesErr
       THEN analysis' = [analysis EXCEPT !.calls[c].pc = "catch",
                                         !.calls[c].err = "filesErr"]
       ELSE LET inventory == InventoryOf(FilesOf(crawled_files, Call(c).scan_id))
            IN analysis' = [analysis EXCEPT
                 !.calls[c].pc = "insert",
                 !.calls[c].uniqueSuggestions =
                    UniqueSuggestions(RulesEngine(inventory, NowHours))]
  /\ UNCHANGED <<storeVars, handler>>

\* the batch insert into suggestions; a rejected insert is only logged
InsertSuggestions(c) ==
  /\ Call(c).pc = "insert"
  /\ LET rows == [i \in Idx(Call(c).uniqueSuggestions) |->
                    [scan_id |-> Call(c).scan_id, s |-> Call(c).uniqueSuggestions[i]]]
     IN \E insertErr \in BOOLEAN :
          analysis' = [analysis EXCEPT
            !.calls[c].pc = "set_complete",
            !.stored = IF insertErr THEN @ ELSE @ \o rows]
  /\ UNCHANGED <<storeVars, handler>>

\* update({status: 'complete'}).eq('id', scan_id) and the 200 response
SetComplete(c) ==
  /\ Call(c).pc = "set_complete"
  /\ scans' = [scans EXCEPT ![Call(c).scan_id].status = "complete"]
  /\ Return(c, 200)
  /\ UNCHANGED <<crawl_queue, crawled_files, worker, op, handler>>

\* the catch block: it reads the body again, which gives a scan_id only when
\* the stream has not been read before, and sets that scan to error
AnalyzeCatch(c) ==
  /\ Call(c).pc = "catch"
  /\ LET scan_id == IF Call(c).bodyUsed THEN NoScan ELSE Call(c).scan_id
     IN IF scan_id # NoScan
        THEN scans' = [scans EXCEPT ![scan_id].status = "error",
                                    ![scan_id].error_message = Call(c).err]
        ELSE UNCHANGED scans
  /\ analysis' = [analysis EXCEPT !.calls[c].pc = "returned",
                                  !.calls[c].response = 500,
                                  !.calls[c].bodyUsed = TRUE]
  /\ UNCHANGED <<crawl_queue, crawled_files, worker, op, handler>>

\* ------------------------------------------ continue-crawl and crawl-status
\* what a response shows of a scan
ViewOfScan(s) ==
  [status |-> scans[s].status, crawl_progress |-> scans[s].crawl_progress,
   total_files |-> scans[s].total_files, total_folders |-> scans[s].total_folders,
   total_size_bytes |-> scans[s].total_size_bytes]

PollReturn(status, view) ==
  handler' = [handler EXCEPT !.pc = "returned", !.response = status, !.view = view]

PollAuth ==
  /\ handler.pc = "auth"
  /\ IF handler.caller = NoUser THEN PollReturn(500, "none")
     ELSE handler' = [handler EXCEPT !.pc = "body", !.userId = handler.caller]
  /\ UNCHANGED <<storeVars, analysis>>

PollBody ==
  /\ handler.pc = "body"
  /\ IF handler.scan_id = NoScan THEN PollReturn(400, "none")
     ELSE handler' = [handler EXCEPT !.pc = "lookup"]
  /\ UNCHANGED <<storeVars, analysis>>

\* the scan of that id and that user: crawl-status answers with it,
\* continue-crawl answers with it unless it is crawling
PollLookup ==
  /\ handler.pc = "lookup"
  /\ LET s == handler.scan_id
     IN IF scans[s].user_id # handler.userId THEN PollReturn(404, "none")
        ELSE IF handler.endpoint = "crawl-status" \/ scans[s].status # "crawling"
        THEN PollReturn(200, ViewOfScan(s))
        ELSE handler' = [handler EXCEPT !.pc = "select"]
  /\ UNCHANGED <<storeVars, analysis>>

\* continue-crawl's processBatch: the pending select and the mark; an empty
\* select returns at once for an unseeded queue and finalizes otherwise
BatchSelect ==
  /\ handler.pc = "select"
  /\ LET s == handler.scan_id
     IN IF StoreCount(crawl_queue, s, "pending") > 0
        THEN StoreClaim(s) /\ handler' = [handler EXCEPT !.pc = "expand"]
        ELSE IF RowsOf(crawl_queue, s) = {}
        THEN UNCHANGED storeVars /\ handler' = [handler EXCEPT !.pc = "reread"]
        ELSE StoreFinalizeWrite(s) /\ handler' = [handler EXCEPT !.pc = "reread"]
  /\ UNCHANGED analysis

\* one turn of the for-loop
BatchExpand ==
  /\ handler.pc = "expand"
  /\ StoreExpand(handler.scan_id)
  /\ handler' = [handler EXCEPT
       !.pc = IF Len(worker[handler.scan_id].items) = 1 THEN "progress" ELSE "expand"]
  /\ UNCHANGED analysis

BatchProgress ==
  /\ handler.pc = "progress"
  /\ StoreProgressWrite(handler.scan_id)
  /\ handler' = [handler EXCEPT
       !.pc = IF StoreCount(crawl_queue, handler.scan_id, "pending") = 0
              THEN "finalize" ELSE "reread"]
  /\ UNCHANGED analysis

BatchFinalize ==
  /\ handler.pc = "finalize"
  /\ StoreFinalizeWrite(handler.scan_id)
  /\ handler' = [handler EXCEPT !.pc = "reread"]
  /\ UNCHANGED analysis

\* the handler reads the scan again for its response
PollReread ==
  /\ handler.pc = "reread"
  /\ PollReturn(200, ViewOfScan(handler.scan_id))
  /\ UNCHANGED <<storeVars, analysis>>

RequestNext ==
  /\ UNCHANGED <<crawlVars, graphVars>>
  /\ \/ \E c \in Calls :
          \/ AnalyzeAuth(c) \/ AnalyzeBody(c) \/ AnalyzeLookup(c) \/ SetAnalyzing(c)
          \/ ReadFiles(c) \/ InsertSuggestions(c) \/ SetComplete(c) \/ AnalyzeCatch(c)
     \/ PollAuth \/ PollBody \/ PollLookup
     \/ BatchSelect \/ BatchExpand \/ BatchProgress \/ BatchFinalize \/ PollReread

RequestSpec == RequestInit /\ [][RequestNext]_vars

\* ---------------------------------------------------------------------
\* the analyze request and the scan it names
\* an analyze call takes the step
AnalyzeStep(c) == analysis'.calls[c] # analysis.calls[c]

\* suggestion rows of scan s
StoredOf(st, s) == SelectSeq(st, LAMBDA row : row.scan_id = s)

\* status changes runAnalysis may make
AnalysisMoves == {<<"crawled", "analyzing">>, <<"analyzing", "complete">>,
                  <<"analyzing", "error">>}

\* C31: an analyze request for a scan that is not `crawled` is rejected and
\* changes neither the scan nor its suggestions; the only status changes
\* an analyze request makes are crawled -> analyzing -> complete (or -> error),
\* and it inserts suggestions for a scan only while the scan is `analyzing`.
C31_AnalysisStatusProtocol ==
  [][\A c \in Calls : AnalyzeStep(c) =>
       /\ Call(c).pc = "lookup" /\ scans[Call(c).scan_id].status # "crawled"
            => analysis'.calls[c].pc = "returned"
               /\ analysis'.calls[c].response \in {400, 404}
       /\ \A s \in ScanIds :
            /\ scans'[s] # scans[s]
                 => /\ <<scans[s].status, scans'[s].status>> \in AnalysisMoves
                    /\ [scans'[s] EXCEPT !.status = "x", !.error_message = "x"]
                         = [scans[s] EXCEPT !.status = "x", !.error_message = "x"]
            /\ StoredOf(analysis'.stored, s) # StoredOf(analysis.stored, s)
                 => scans[s].status = "analyzing"]_vars

\* C32: when an analyze request throws after it has set the scan to
\* `analyzing`, the scan becomes `error` with the thrown message, and once
\* every analyze request has returned no scan is `analyzing`.
C32_FailedAnalysisMarksError ==
  /\ [][\A c \in Calls :
          AnalyzeStep(c) /\ Call(c).pc = "catch" /\ Call(c).err = "filesErr"
            => /\ scans'[Call(c).scan_id].status = "error"
               /\ scans'[Call(c).scan_id].error_message = Call(c).err]_vars
  /\ []((\A c \in Calls : Call(c).pc = "returned")
          => \A s \in ScanIds : scans[s].status # "analyzing")

\* rows of scan s in a table
QueueOf(q, s) == SelectSeq(q, LAMBDA row : row.scan_id = s)

\* the step changes a scans, crawl_queue, crawled_files or suggestions row of
\* scan s
Touches(s) ==
  \/ scans'[s] # scans[s]
  \/ QueueOf(crawl_queue', s) # QueueOf(crawl_queue, s)
  \/ FilesOf(crawled_files', s) # FilesOf(crawled_files, s)
  \/ StoredOf(analysis'.stored, s) # StoredOf(analysis.stored, s)

\* C33: continue-crawl, crawl-status and analyze act only on a scan owned by
\* the authenticated caller: a request changes a scans, crawl_queue,
\* crawled_files or suggestions row of a scan, or answers with the scan's
\* status, progress or totals, only when verifyAuth gave it the owner's id;
\* and an authenticated request for another user's scan is answered 404.
C33_OwnerOnly ==
  [][/\ \A c \in Calls : AnalyzeStep(c) =>
          /\ \A s \in ScanIds : Touches(s) => Call(c).userId = scans[s].user_id
          /\ Call(c).pc = "lookup"
               /\ scans[Call(c).scan_id].user_id # Call(c).userId
               => analysis'.calls[c].response = 404
     /\ handler' # handler =>
          /\ \A s \in ScanIds : Touches(s) => handler.userId = scans[s].user_id
          /\ handler'.view # "none"
               => handler.userId = scans[handler.scan_id].user_id
          /\ handler.pc = "lookup"
               /\ scans[handler.scan_id].user_id # handler.userId
               => handler'.response = 404]_vars

\* C40: of two overlapping analyze requests for the same crawled scan at most
\* one runs the analysis, and when both have returned the suggestions of
\* the scan hold no two rows with the same key (item id or path, category,
\* title).
C40_OverlappingAnalysesRunOnce ==
  (\A c \in Calls : Call(c).pc = "returned")
    => \A s \in ScanIds :
         /\ Cardinality({c \in Calls : Call(c).scan_id = s
                                        /\ Call(c).response = 200}) <= 1
         /\ LET rows == StoredOf(analysis.stored, s)
            IN \A i, j \in Idx(rows) : i # j => Key(rows[i].s) # Key(rows[j].s)

====
